---- MODULE Spec2Model ----
(***************************************************************************)
(* Credential vault, connection validator, connection tester, health       *)
(* tracker and profile store of the PostgreSQL desktop client              *)
(* (src-tauri/src).                                                        *)
(*                                                                         *)
(* Specifications:                                                         *)
(*   SpecVault      the CredentialVault over the platform keystore         *)
(*   SpecTamper     a vault whose entries are rewritten from outside      *)
(*   SpecClassify   analyze_connection_error as a pure function            *)
(*   SpecShared     concurrent callers of one ConnectionHealthService      *)
(*   SpecStore      concurrent create_profile on a ConnectionProfileStore  *)
(*   SpecValidator  validate_connection_config as a pure function          *)
(*   Spec           one test_connection invocation after another           *)
(*   SpecFair       Spec, with every enabled step of a test taken          *)
(*   SpecHistory    test_profile_connection filling the health history     *)
(*   SpecUptime     calculate_uptime over short histories                  *)
(*   SpecService    every public operation of the health service           *)
(*   SpecProfiles   the operations of the profile store, one at a time     *)
(*   SpecCommands   the health commands of the Tauri layer                 *)
(***************************************************************************)
EXTENDS Integers, Sequences, FiniteSets, TLC

(***************************************************************************)
(* Option and Result values.                                               *)
(***************************************************************************)
None == <<>>
Some(x) == <<x>>
IsSome(o) == o # <<>>
Unwrap(o) == o[1]

Ok(v) == [ok |-> TRUE, val |-> v]
Err(e) == [ok |-> FALSE, err |-> e]

(***************************************************************************)
(* Bounds of the model.                                                    *)
(***************************************************************************)
\* Number of master keys the random source hands out in one run.
MaxKeys == 3
\* Number of distinct nonce values the random source hands out.
MaxNonce == 2

Profiles == {"p1", "p2"}
Keys == 1..MaxKeys
Nonces == 1..MaxNonce

\* Credentials values a caller passes in (username, password, encrypted_at).
CredentialsSet ==
    { [username |-> "alice", password |-> "pw1", encrypted_at |-> "t1"],
      [username |-> "alice", password |-> "pw2", encrypted_at |-> "t2"],
      [username |-> "bob",   password |-> "pw1", encrypted_at |-> "t2"] }

(***************************************************************************)
(* VaultError                                                              *)
(***************************************************************************)
ProfileNotFound(p) == [kind |-> "ProfileNotFound", id |-> p]
MasterKeyError == [kind |-> "MasterKeyError"]
DecryptionError == [kind |-> "DecryptionError"]
SerializationError == [kind |-> "SerializationError"]

(***************************************************************************)
(* Conversions.  serde_json writes a Credentials value as a JSON object    *)
(* and reads it back; base64 wraps bytes in text; AES-256-GCM seals a      *)
(* plaintext under (key, nonce) and opens it only under the same pair.     *)
(***************************************************************************)
to_json(c) == <<"json", c.username, c.password, c.encrypted_at>>

from_json(s) ==
    IF Len(s) = 4 /\ s[1] = "json"
    THEN Ok([username |-> s[2], password |-> s[3], encrypted_at |-> s[4]])
    ELSE Err(SerializationError)

\* The keyring holds an EncryptedCredentials value as a JSON object.
encrypted_to_json(e) == <<"json", e.encrypted_data, e.nonce>>

encrypted_from_json(s) ==
    IF Len(s) = 3 /\ s[1] = "json"
    THEN Ok([encrypted_data |-> s[2], nonce |-> s[3]])
    ELSE Err(SerializationError)

b64_encode(bytes) == <<"b64", bytes>>

b64_decode(text) ==
    IF Len(text) = 2 /\ text[1] = "b64" THEN Ok(text[2]) ELSE Err("invalid base64")

\* The nonce Aes256Gcm::generate_nonce returns: 96 bits.
NonceLen == 12

aead_encrypt(key, nonce, data) == [k |-> key, n |-> nonce.v, pt |-> data]

aead_decrypt(key, nonce, ciphertext) ==
    IF ciphertext.k = key /\ ciphertext.n = nonce.v
    THEN Ok(ciphertext.pt)
    ELSE Err(DecryptionError)

encrypt_data(data, key, n) ==
    LET nonce == [len |-> NonceLen, v |-> n]
        ciphertext == aead_encrypt(key, nonce, data)
    IN  [encrypted_data |-> b64_encode(ciphertext), nonce |-> b64_encode(nonce)]

decrypt_data(encrypted, key) ==
    LET nonce_bytes == b64_decode(encrypted.nonce)
        ciphertext == b64_decode(encrypted.encrypted_data)
    IN  IF ~nonce_bytes.ok THEN Err(DecryptionError)
        ELSE IF nonce_bytes.val.len # NonceLen THEN Err([kind |-> "panic"])
        ELSE IF ~ciphertext.ok THEN Err(DecryptionError)
        ELSE aead_decrypt(key, nonce_bytes.val, ciphertext.val)

(***************************************************************************)
(* The vault's operations as functions of (master_key, keystore).  Each    *)
(* returns the Result and the keystore entries after the call.             *)
(***************************************************************************)
StoreUnderStaleKey(mk, ks, p, c, n) ==
    IF ~IsSome(mk) THEN [res |-> Err(MasterKeyError), ks |-> ks]
    ELSE [res |-> Ok("unit"),
          ks  |-> [ks EXCEPT ![p] = Some(encrypted_to_json(
                    encrypt_data(to_json(c), (Unwrap(mk) % MaxKeys) + 1, n)))]]

\* Seals under an all-zero key when the vault holds none.
StoreWithoutKeyCheck(mk, ks, p, c, n) ==
    [res |-> Ok("unit"),
     ks  |-> [ks EXCEPT ![p] = Some(encrypted_to_json(
               encrypt_data(to_json(c), IF IsSome(mk) THEN Unwrap(mk) ELSE 0, n)))]]

store_credentials(mk, ks, p, c, n) ==
    IF ~IsSome(mk) THEN [res |-> Err(MasterKeyError), ks |-> ks]
    ELSE [res |-> Ok("unit"),
          ks  |-> [ks EXCEPT ![p] = Some(encrypted_to_json(
                    encrypt_data(to_json(c), Unwrap(mk), n)))]]

RetrieveIgnoresMissing(mk, ks, p) ==
    IF ~IsSome(mk) THEN Err(MasterKeyError)
    ELSE IF ~IsSome(ks[p]) THEN Err(DecryptionError)
    ELSE LET encrypted == encrypted_from_json(Unwrap(ks[p]))
         IN  IF ~encrypted.ok THEN encrypted
             ELSE LET decrypted_data == decrypt_data(encrypted.val, Unwrap(mk))
                  IN  IF ~decrypted_data.ok THEN decrypted_data
                      ELSE from_json(decrypted_data.val)

retrieve_credentials(mk, ks, p) ==
    IF ~IsSome(mk) THEN Err(MasterKeyError)
    ELSE IF ~IsSome(ks[p]) THEN Err(ProfileNotFound(p))
    ELSE LET encrypted == encrypted_from_json(Unwrap(ks[p]))
         IN  IF ~encrypted.ok THEN encrypted
             ELSE LET decrypted_data == decrypt_data(encrypted.val, Unwrap(mk))
                  IN  IF ~decrypted_data.ok THEN decrypted_data
                      ELSE from_json(decrypted_data.val)

UpdateWithoutExistenceCheck(mk, ks, p, c, n) == store_credentials(mk, ks, p, c, n)

\* Overwrites an entry it cannot open.
UpdateReplacesUnreadable(mk, ks, p, c, n) ==
    LET existing == retrieve_credentials(mk, ks, p)
    IN  IF ~existing.ok /\ existing.err # DecryptionError THEN [res |-> existing, ks |-> ks]
        ELSE store_credentials(mk, ks, p, c, n)

update_credentials(mk, ks, p, c, n) ==
    LET existing == retrieve_credentials(mk, ks, p)
    IN  IF ~existing.ok THEN [res |-> existing, ks |-> ks]
        ELSE store_credentials(mk, ks, p, c, n)

\* Removes every entry of the service, not only the one of p.
DeleteClearsKeystore(ks, p) ==
    IF ~IsSome(ks[p]) THEN [res |-> Err(ProfileNotFound(p)), ks |-> ks]
    ELSE [res |-> Ok("unit"), ks |-> [q \in DOMAIN ks |-> None]]

delete_credentials(ks, p) ==
    IF ~IsSome(ks[p]) THEN [res |-> Err(ProfileNotFound(p)), ks |-> ks]
    ELSE [res |-> Ok("unit"), ks |-> [ks EXCEPT ![p] = None]]

has_credentials(ks, p) == IsSome(ks[p])

(***************************************************************************)
(* Connection configuration.  A String is kept by what the validator reads *)
(* of it: its length in chars, its length in bytes (String::len) and       *)
(* whether trim() leaves it empty.  A Duration is kept in milliseconds.    *)
(***************************************************************************)
Str(c, b, bl) == [chars |-> c, bytes |-> b, blank |-> bl]

HostValues ==
    { Str(0, 0, TRUE),          \* ""
      Str(3, 3, TRUE),          \* "   "
      Str(9, 9, FALSE),         \* "localhost"
      Str(255, 255, FALSE),     \* 255 ASCII chars
      Str(256, 256, FALSE),     \* 256 ASCII chars
      Str(200, 400, FALSE) }    \* 200 two-byte chars

NameValues ==
    { Str(0, 0, TRUE),          \* ""
      Str(2, 2, TRUE),          \* "  "
      Str(8, 8, FALSE),         \* "postgres"
      Str(63, 63, FALSE),
      Str(64, 64, FALSE),
      Str(40, 80, FALSE) }      \* 40 two-byte chars

\* port: u16
PortValues == {0, 1, 5432, 65535}

ConnTimeoutValues == {0, 500, 1000, 30000, 300000, 300500, 301000}
QueryTimeoutValues == {0, 1000, 300000, 3600000, 3601000}

\* An Option<String> naming a file: absent, blank, a file that exists, one that does not.
PathValues == {"none", "blank", "exists", "missing"}

\* Entries a custom_parameters map may hold, by name.
ParamTable ==
    [ application_name |-> [key |-> Str(16, 16, FALSE), value |-> Str(6, 6, FALSE)],
      empty_key        |-> [key |-> Str(0, 0, TRUE),   value |-> Str(6, 6, FALSE)],
      options          |-> [key |-> Str(7, 7, FALSE),  value |-> Str(1024, 1024, FALSE)],
      search_path      |-> [key |-> Str(11, 11, FALSE), value |-> Str(1025, 1025, FALSE)],
      wide_value       |-> [key |-> Str(4, 4, FALSE),  value |-> Str(600, 1200, FALSE)],
      blank_key        |-> [key |-> Str(1, 1, TRUE),   value |-> Str(1025, 1025, FALSE)] ]

ParamNames == DOMAIN ParamTable

\* AdvancedConnectionConfig::default()
DefaultConfig ==
    [ host |-> Str(9, 9, FALSE),
      port |-> 5432,
      database |-> Str(8, 8, FALSE),
      username |-> Str(8, 8, FALSE),
      connection_timeout |-> 30000,
      query_timeout |-> 300000,
      ssl_cert |-> "none",
      ssl_key |-> "none",
      ssl_ca |-> "none",
      custom_parameters |-> {} ]

as_secs(ms) == ms \div 1000

MaxHostLen == 255
MaxNameLen == 63
MaxConnTimeout == 300
MaxQueryTimeout == 3600
MaxParamValueLen == 1024
U16Max == 65535

\* ConnectionValidationError
InvalidHost(msg) == [kind |-> "InvalidHost", msg |-> msg]
InvalidPort(msg) == [kind |-> "InvalidPort", msg |-> msg]
InvalidDatabase(msg) == [kind |-> "InvalidDatabase", msg |-> msg]
InvalidUsername(msg) == [kind |-> "InvalidUsername", msg |-> msg]
InvalidSSLConfig(msg) == [kind |-> "InvalidSSLConfig", msg |-> msg]
InvalidTimeout(msg) == [kind |-> "InvalidTimeout", msg |-> msg]
InvalidCustomParameter(key, msg) == [kind |-> "InvalidCustomParameter", key |-> key, msg |-> msg]

host_errors(config) ==
    IF config.host.blank THEN <<InvalidHost("empty")>>
    ELSE IF config.host.bytes > MaxHostLen THEN <<InvalidHost("too long")>>
    ELSE <<>>

port_errors(config) ==
    IF config.port = 0 \/ config.port > U16Max
    THEN <<InvalidPort("range")>> ELSE <<>>

database_errors(config) ==
    IF config.database.blank THEN <<InvalidDatabase("empty")>>
    ELSE IF config.database.bytes > MaxNameLen THEN <<InvalidDatabase("too long")>>
    ELSE <<>>

username_errors(config) ==
    IF config.username.blank THEN <<InvalidUsername("empty")>>
    ELSE IF config.username.bytes > MaxNameLen THEN <<InvalidUsername("too long")>>
    ELSE <<>>

timeout_errors(config) ==
    (IF as_secs(config.connection_timeout) = 0
        \/ as_secs(config.connection_timeout) > MaxConnTimeout
     THEN <<InvalidTimeout("connection")>> ELSE <<>>)
    \o
    (IF as_secs(config.query_timeout) = 0
        \/ as_secs(config.query_timeout) > MaxQueryTimeout
     THEN <<InvalidTimeout("query")>> ELSE <<>>)

\* Some(path), not blank after trim, and Path::exists() is false
path_missing(path) == path = "missing"

ssl_errors(config) ==
    (IF path_missing(config.ssl_cert) THEN <<InvalidSSLConfig("cert")>> ELSE <<>>)
    \o (IF path_missing(config.ssl_key) THEN <<InvalidSSLConfig("key")>> ELSE <<>>)
    \o (IF path_missing(config.ssl_ca) THEN <<InvalidSSLConfig("ca")>> ELSE <<>>)

param_errors(name) ==
    (IF ParamTable[name].key.blank
     THEN <<InvalidCustomParameter(name, "empty name")>> ELSE <<>>)
    \o
    (IF ParamTable[name].value.bytes > MaxParamValueLen
     THEN <<InvalidCustomParameter(name, "value too long")>> ELSE <<>>)

\* `order` is the order in which the HashMap iterator yields the entries.
RECURSIVE custom_parameter_errors(_)
custom_parameter_errors(order) ==
    IF order = <<>> THEN <<>>
    ELSE param_errors(Head(order)) \o custom_parameter_errors(Tail(order))

\* The iteration orders of a map holding the entries S.
IterationOrders(S) ==
    { o \in [1..Cardinality(S) -> S] : \A i, j \in 1..Cardinality(S) : o[i] = o[j] => i = j }

ValidateFirstErrorOnly(config, order) ==
    LET errors == host_errors(config) \o port_errors(config) \o database_errors(config)
                  \o username_errors(config) \o timeout_errors(config)
                  \o ssl_errors(config) \o custom_parameter_errors(order)
    IN  IF errors = <<>> THEN Ok("unit") ELSE Err(<<Head(errors)>>)

validate_connection_config(config, order) ==
    LET errors == host_errors(config) \o port_errors(config) \o database_errors(config)
                  \o username_errors(config) \o timeout_errors(config)
                  \o ssl_errors(config) \o custom_parameter_errors(order)
    IN  IF errors = <<>> THEN Ok("unit") ELSE Err(errors)

(***************************************************************************)
(* Connection tester.                                                      *)
(*                                                                         *)
(* An error is kept by its Display text; a text is kept by the fragments   *)
(* the classifier searches for, in the case they are written in.           *)
(***************************************************************************)
ErrorTexts ==
    [ refused       |-> {"Connection refused"},
      auth          |-> {"password", "authentication failed"},
      no_database   |-> {"database", "does not exist"},
      connect_timed_out |-> {"Connection", "timed out"},
      query_timed_out   |-> {"query", "timed out"} ]

\* Errors tokio_postgres::connect returns in time.
ConnectErrors == {"refused", "auth", "no_database"}

\* error.to_string(): the Display text of an error.
to_string(error) == ErrorTexts[error]

\* The words analyze_connection_error searches for, and each of them as a
\* server or a driver may write it.
Needles ==
    {"connection refused", "timeout", "timed out", "authentication failed", "password",
     "database", "does not exist", "ssl", "host", "resolve"}

Capitalised ==
    [ needle \in Needles |->
        CASE needle = "connection refused" -> "Connection refused"
          [] needle = "timeout" -> "Timeout"
          [] needle = "timed out" -> "Timed out"
          [] needle = "authentication failed" -> "Authentication failed"
          [] needle = "password" -> "Password"
          [] needle = "database" -> "Database"
          [] needle = "does not exist" -> "Does not exist"
          [] needle = "ssl" -> "SSL"
          [] needle = "host" -> "Host"
          [] needle = "resolve" -> "Resolve" ]

\* str::to_lowercase, fragment by fragment.
to_lowercase(fragment) ==
    IF \E needle \in Needles : Capitalised[needle] = fragment
    THEN CHOOSE needle \in Needles : Capitalised[needle] = fragment
    ELSE IF fragment = "Connection" THEN "connection"
    ELSE fragment

\* error_str.contains(needle), error_str a lower-cased text.
contains(error_str, needle) == needle \in error_str

\* Classifies "timed out" before "connection refused".
TimeoutRuleFirst(text) ==
    LET error_str == { to_lowercase(fragment) : fragment \in text }
    IN  IF contains(error_str, "timeout") \/ contains(error_str, "timed out")
        THEN <<"CONNECTION_TIMEOUT",
               <<"Increase connection timeout value",
                 "Check network connectivity",
                 "Verify server is not overloaded">> >>
        ELSE IF contains(error_str, "connection refused")
        THEN <<"CONNECTION_REFUSED",
               <<"Check if PostgreSQL server is running",
                 "Verify the host and port are correct",
                 "Check firewall settings">> >>
        ELSE <<"UNKNOWN_ERROR",
               <<"Check server logs for more details",
                 "Verify all connection parameters",
                 "Try connecting with a different client to isolate the issue">> >>

\* analyze_connection_error, given the Display text of the error:
\* (error_code, hints)
analyze_connection_error(text) ==
    LET error_str == { to_lowercase(fragment) : fragment \in text } IN
    IF contains(error_str, "connection refused")
    THEN <<"CONNECTION_REFUSED",
           <<"Check if PostgreSQL server is running",
             "Verify the host and port are correct",
             "Check firewall settings">> >>
    ELSE IF contains(error_str, "timeout") \/ contains(error_str, "timed out")
    THEN <<"CONNECTION_TIMEOUT",
           <<"Increase connection timeout value",
             "Check network connectivity",
             "Verify server is not overloaded">> >>
    ELSE IF contains(error_str, "authentication failed") \/ contains(error_str, "password")
    THEN <<"AUTHENTICATION_FAILED",
           <<"Verify username and password are correct",
             "Check if user has permission to connect",
             "Verify authentication method (md5, scram-sha-256, etc.)">> >>
    ELSE IF contains(error_str, "database") /\ contains(error_str, "does not exist")
    THEN <<"DATABASE_NOT_FOUND",
           <<"Check if the database name is correct",
             "Verify the database exists on the server",
             "Check if you have permission to access this database">> >>
    ELSE IF contains(error_str, "ssl")
    THEN <<"SSL_ERROR",
           <<"Check SSL configuration settings",
             "Verify SSL certificates are valid and accessible",
             "Try different SSL modes (disable, prefer, require)">> >>
    ELSE IF contains(error_str, "host") \/ contains(error_str, "resolve")
    THEN <<"HOST_RESOLUTION_ERROR",
           <<"Check if the hostname is correct",
             "Try using IP address instead of hostname",
             "Check DNS resolution">> >>
    ELSE <<"UNKNOWN_ERROR",
           <<"Check server logs for more details",
             "Verify all connection parameters",
             "Try connecting with a different client to isolate the issue">> >>

validation_hint(error) ==
    CASE error.kind = "InvalidHost" -> "Provide a valid hostname or IP address"
      [] error.kind = "InvalidPort" -> "Use a valid port number (typically 5432 for PostgreSQL)"
      [] error.kind = "InvalidDatabase" -> "Provide a valid database name"
      [] error.kind = "InvalidUsername" -> "Provide a valid username"
      [] error.kind = "InvalidSSLConfig" -> "Check SSL certificate file paths and permissions"
      [] error.kind = "InvalidTimeout" -> "Use reasonable timeout values (30 seconds for connection, 5 minutes for queries)"
      [] error.kind = "InvalidCustomParameter" -> "Check custom parameter names and values"

NoValidationHints(errors) == <<>>

generate_validation_hints(errors) ==
    [i \in 1..Len(errors) |-> validation_hint(errors[i])]

\* ConnectionTestOptions::default() and the unwrap_or defaults of test_connection.
DefaultRetryAttempts == 3
DefaultRetryDelayMs == 1000
\* The sub-timeout of the probe query, in seconds.
ProbeTimeoutSecs == 10

\* ConnectionTestOptions::default()
DefaultOptions ==
    [ timeout_seconds |-> Some(30), retry_attempts |-> Some(DefaultRetryAttempts),
      retry_delay_ms |-> Some(DefaultRetryDelayMs), test_query |-> Some("SELECT 1") ]

\* The four ConnectionTestResult values test_connection builds.  An
\* error_message is a text and the validation errors formatted into it.
validation_failure_result(validation_errors) ==
    [ success |-> FALSE,
      error_message |-> Some(<<"Configuration validation failed", validation_errors>>),
      error_code |-> Some("VALIDATION_ERROR"),
      server_version |-> None,
      database_name |-> None,
      connection_details |-> None,
      troubleshooting_hints |-> generate_validation_hints(validation_errors) ]

success_result(config, server_version) ==
    [ success |-> TRUE,
      error_message |-> None,
      error_code |-> None,
      server_version |-> server_version,
      database_name |-> Some(config.database),
      connection_details |-> Some([host |-> config.host, port |-> config.port,
                                   database |-> config.database,
                                   username |-> config.username, ssl_used |-> FALSE]),
      troubleshooting_hints |-> <<>> ]

failure_result(config, e) ==
    [ success |-> FALSE,
      error_message |-> Some(<<e, <<>> >>),
      error_code |-> Some(analyze_connection_error(to_string(e))[1]),
      server_version |-> None,
      database_name |-> Some(config.database),
      connection_details |-> None,
      troubleshooting_hints |-> analyze_connection_error(to_string(e))[2] ]

fall_through_result ==
    [ success |-> FALSE,
      error_message |-> Some(<<"Unknown error occurred", <<>> >>),
      error_code |-> Some("UNKNOWN_ERROR"),
      server_version |-> None,
      database_name |-> None,
      connection_details |-> None,
      troubleshooting_hints |-> <<"Please check your connection parameters and try again.">> ]

retry_attempts_of(options) ==
    IF IsSome(options.retry_attempts) THEN Unwrap(options.retry_attempts)
    ELSE DefaultRetryAttempts

retry_delay_of(options) ==
    IF IsSome(options.retry_delay_ms) THEN Unwrap(options.retry_delay_ms)
    ELSE DefaultRetryDelayMs

\* The bound of the connect step, in seconds.
connect_timeout_of(config, options) ==
    IF IsSome(options.timeout_seconds) THEN Unwrap(options.timeout_seconds)
    ELSE as_secs(config.connection_timeout)

\* Where test_connection goes after validating: out with the validation
\* failure, out through the empty loop, or into the first attempt.
SkipValidationBranch(validation, retry_attempts) ==
    IF retry_attempts = 0 THEN "fall_through" ELSE "attempt"

after_validation(validation, retry_attempts) ==
    IF ~validation.ok THEN "validation_failed"
    ELSE IF retry_attempts = 0 THEN "fall_through"
    ELSE "attempt"

\* What the Err arm of the loop does after a failed attempt.
RetryOnceMore(attempt, retry_attempts) ==
    IF attempt <= retry_attempts THEN "sleep" ELSE "fail"

after_failed_attempt(attempt, retry_attempts) ==
    IF attempt < retry_attempts THEN "sleep" ELSE "fail"

\* What attempt_connection does with query_result, the outcome of the probe
\* query under its timeout: "rows" is Ok(Ok(_)), "error" is Ok(Err(_)) and
\* "elapsed" is Err(Elapsed).
ProbeErrorFailsAttempt(query_result) ==
    IF query_result = "rows" THEN "version" ELSE "fail"

after_probe(query_result) ==
    IF query_result = "elapsed" THEN "fail" ELSE "version"

\* How long the Err arm sleeps after failed attempt number `attempt`, in ms.
ExponentialBackoff(retry_delay, attempt) == retry_delay * (2 ^ (attempt - 1))

retry_sleep(retry_delay, attempt) == retry_delay

\* The error the Err arm reports when it gives up: the `e` bound in the
\* iteration that is running, given the errors of the attempts so far.
ReportsFirstError(errors) == errors[1]

reported_error(errors) == errors[Len(errors)]

(***************************************************************************)
(* test_connection as a function of the server's behaviour.  A script      *)
(* gives, for each attempt, what the server does at the connect step, at   *)
(* the probe query and at the version query: it answers, or never does.    *)
(***************************************************************************)
Behaviour(connect, probe, version) ==
    [connect |-> connect, probe |-> probe, version |-> version]

\* attempt_connection: [done, res] where done = FALSE means it never returns.
attempt_connection(config, options, b) ==
    IF b.connect = "never" THEN [done |-> TRUE, res |-> Err("connect_timed_out")]
    ELSE IF b.connect # "ok" THEN [done |-> TRUE, res |-> Err(b.connect)]
    ELSE IF IsSome(options.test_query) /\ b.probe = "never"
    THEN [done |-> TRUE, res |-> Err("query_timed_out")]
    ELSE IF b.version = "never" THEN [done |-> FALSE]
    ELSE [done |-> TRUE, res |-> Ok(b.version)]

RECURSIVE retry_loop(_, _, _, _)
retry_loop(config, options, attempt, script) ==
    IF attempt > retry_attempts_of(options)
    THEN [done |-> TRUE, result |-> fall_through_result]
    ELSE LET a == attempt_connection(config, options, script[attempt])
         IN  IF ~a.done THEN [done |-> FALSE]
             ELSE IF a.res.ok
             THEN [done |-> TRUE, result |-> success_result(config, a.res.val)]
             ELSE IF after_failed_attempt(attempt, retry_attempts_of(options)) = "sleep"
             THEN retry_loop(config, options, attempt + 1, script)
             ELSE [done |-> TRUE, result |-> failure_result(config, a.res.err)]

test_connection(config, order, options, script) ==
    LET validation == validate_connection_config(config, order)
    IN  IF after_validation(validation, retry_attempts_of(options)) = "validation_failed"
        THEN [done |-> TRUE, result |-> validation_failure_result(validation.err)]
        ELSE retry_loop(config, options, 1, script)

(***************************************************************************)
(* Health tracker.  health_history maps a profile id to None (no key in    *)
(* the HashMap) or Some(vector of HealthCheckResult).                      *)
(***************************************************************************)
HealthCap == 100

Healthy == "Healthy"
Warning == "Warning"
Error == "Error"
Unknown == "Unknown"

HealthStatusAlwaysHealthy(result) == Healthy

health_status(result) == IF result.success THEN Healthy ELSE Error

health_check_result(result, now) ==
    [ timestamp |-> now,
      status |-> health_status(result),
      response_time_ms |-> Some("elapsed"),
      error_message |-> result.error_message ]

DrainKeepsOldest(v) ==
    IF Len(v) > HealthCap THEN SubSeq(v, 1, HealthCap) ELSE v

\* profile_history.drain(0..profile_history.len() - 100) when len() > 100
drain_oldest(v) ==
    IF Len(v) > HealthCap THEN SubSeq(v, Len(v) - HealthCap + 1, Len(v)) ELSE v

\* Records the entry under every profile id.
PushToEveryProfile(history, profile_id, health_result) ==
    [p \in DOMAIN history |->
        Some(drain_oldest(Append(IF IsSome(history[p]) THEN Unwrap(history[p]) ELSE <<>>,
                                 health_result)))]

\* entry(profile.id).or_insert_with(Vec::new), push, trim
push_health_result(history, profile_id, health_result) ==
    LET profile_history == IF IsSome(history[profile_id])
                           THEN Unwrap(history[profile_id]) ELSE <<>>
    IN  [history EXCEPT ![profile_id] =
            Some(drain_oldest(Append(profile_history, health_result)))]

get_health_history(history, profile_id) ==
    IF IsSome(history[profile_id]) THEN Unwrap(history[profile_id]) ELSE <<>>

get_current_health(history, profile_id) ==
    IF IsSome(history[profile_id]) /\ Unwrap(history[profile_id]) # <<>>
    THEN LET last_result == Unwrap(history[profile_id])[Len(Unwrap(history[profile_id]))]
         IN  Some([status |-> last_result.status,
                   last_checked |-> last_result.timestamp,
                   response_time_ms |-> last_result.response_time_ms,
                   error_message |-> last_result.error_message])
    ELSE None

(***************************************************************************)
(* calculate_uptime.  Time is counted in hours.  DateTimeMin stands for    *)
(* chrono's DateTime::<Utc>::MIN_UTC and U32Max for the largest            *)
(* period_hours: the real values (about 2.3e9 hours before 1970, and       *)
(* 4294967295) are kept in their order, now - DateTimeMin < U32Max, on a   *)
(* small scale.  `DateTime - Duration` panics when it leaves the range.    *)
(* The f64 result is kept in hundredths of a percent, rounded down.        *)
(***************************************************************************)
DateTimeMin == -8
U32Max == 16

Panic == [panic |-> TRUE]
Returns(v) == [panic |-> FALSE, value |-> v]

RECURSIVE count_if(_, _)
count_if(v, status) ==
    IF v = <<>> THEN 0
    ELSE (IF Head(v).status = status THEN 1 ELSE 0) + count_if(Tail(v), status)

RECURSIVE filter_after(_, _)
filter_after(v, cutoff_time) ==
    IF v = <<>> THEN <<>>
    ELSE (IF Head(v).timestamp > cutoff_time THEN <<Head(v)>> ELSE <<>>)
         \o filter_after(Tail(v), cutoff_time)

calculate_uptime(history, profile_id, period_hours, now) ==
    IF IsSome(history[profile_id])
    THEN IF now - period_hours < DateTimeMin THEN Panic
         ELSE LET recent_results == filter_after(Unwrap(history[profile_id]), now - period_hours)
              IN  IF recent_results = <<>> THEN Returns(0)
                  ELSE Returns((count_if(recent_results, Healthy) * 10000)
                               \div Len(recent_results))
    ELSE Returns(0)

(***************************************************************************)
(* State.                                                                  *)
(***************************************************************************)
VARIABLES
    \* CredentialVault and the keyring
    master_key,     \* CredentialVault.master_key: Option<[u8; 32]>
    keystore,       \* keyring entries "profile_<id>" of the service
    master_rec,     \* keyring entry "master_key": Option<MasterKeyInfo>
    key_ctr,        \* how many keys the random source has produced
    init_called,    \* history: initialize was called on this vault instance
    tampered,       \* history: profile id -> how its entry was altered from outside
    vault_last,     \* the last vault call: operation, profile, state before, Result
    last_cred,      \* history: the credentials of the last successful store or
                    \* update of a profile not followed by delete, rotation or initialize
    stored,         \* history: a store succeeded and no delete succeeded since
    \* validate_connection_config
    v_config,       \* the AdvancedConnectionConfig a caller has built
    v_edits,        \* how many fields the caller has set
    v_result,       \* Option: the Result of validating v_config
    \* one invocation of test_connection
    t_pc,           \* "idle", "connect", "probe", "version", "sleep", "returned"
    t_config,       \* config
    t_password,     \* password
    t_options,      \* options.unwrap_or_default()
    t_attempt,      \* the loop variable: attempts started
    t_wait,         \* the server's answer to the pending step: "in_time" or "never"
    t_timer,        \* Option: the timeout armed around the pending step, in seconds
    t_probe,        \* query_result of the attempt: "none", "rows", "error" or "elapsed"
    t_outcomes,     \* history: how each finished attempt ended, "ok" or its error
    t_delays,       \* history: retry delays slept
    t_slept,        \* history: the length in ms of each retry delay slept, in order
    t_result,       \* Option: the ConnectionTestResult returned
    \* ConnectionHealthService.health_history
    health_history, \* profile id -> Option<Vec<HealthCheckResult>>
    h_now,          \* Utc::now(), in hours
    h_calls,        \* test_profile_connection calls made
    h_recorded,     \* history: per profile, every HealthCheckResult recorded, in order
    h_last,         \* the last call on the health service and what it returned
    \* concurrent callers of one ConnectionHealthService
    call_pc,        \* caller -> "idle", "waiting", "locked", "pushed"
    call_pending,   \* caller -> Option: the health_result it is about to record
    history_lock,   \* the tokio Mutex around health_history: 0 or the caller holding it
    calls_returned, \* history: test_profile_connection calls that have returned
    \* analyze_connection_error as a function
    cl_text,        \* the Display text of an error
    cl_out,         \* Option: what analyze_connection_error made of it
    \* ConnectionProfileStore and concurrent create_profile calls
    store_profiles, \* ConnectionProfileStore.profiles: the HashMap, key -> profile
    store_file,     \* Option: the StoredProfileData the profiles file holds
    profiles_lock,  \* the RwLock around profiles: [writer, readers]
    metadata_lock,  \* the RwLock around metadata: [writer, readers]
    create_pc,      \* creator -> "idle", "save", "save_metadata", "write", "returned"
    create_arg,     \* creator -> Option: the profile it was called with
    create_data,    \* creator -> Option: the StoredProfileData it is about to write
    create_res,     \* creator -> Option: the Result create_profile returned
    store_last,     \* Option: what the last call on the store returned
    \* the health commands of the Tauri layer
    service_lock,   \* the Mutex around the ConnectionHealthService: 0 or the holder
    cmd_kind,       \* task -> the command it invoked, or "none"
    cmd_pc,         \* task -> "idle", "waiting", "attempt", "sleep", "body", "returned"
    cmd_attempt,    \* task -> the attempt its test is at
    cmd_met,        \* history: task -> the tests in progress when it was invoked
    cmd_seen        \* history: task -> the tests in progress when it returned

lockVars == <<call_pc, call_pending, history_lock, calls_returned>>
classifyVars == <<cl_text, cl_out>>
storeVars == <<store_profiles, store_file, profiles_lock, metadata_lock, create_pc,
               create_arg, create_data, create_res, store_last>>
commandVars == <<service_lock, cmd_kind, cmd_pc, cmd_attempt, cmd_met, cmd_seen>>
otherVars == <<lockVars, classifyVars, storeVars, commandVars>>

vaultVars == <<master_key, keystore, master_rec, key_ctr, init_called, tampered,
               vault_last, last_cred, stored>>
validatorVars == <<v_config, v_edits, v_result>>
testerVars == <<t_pc, t_config, t_password, t_options, t_attempt, t_wait, t_timer,
                t_probe, t_outcomes, t_delays, t_slept, t_result>>

healthVars == <<health_history, h_now, h_calls, h_recorded, h_last>>

vars == <<vaultVars, validatorVars, testerVars, healthVars, otherVars>>

NoCall == [op |-> "none"]

Call(op, p, res) ==
    [op |-> op, pid |-> p, res |-> res,
     had |-> has_credentials(keystore, p), init |-> IsSome(master_key),
     init_called |-> init_called, tampered |-> tampered[p]]

InitVault ==
    /\ master_key = None
    /\ keystore = [p \in Profiles |-> None]
    /\ master_rec = None
    /\ key_ctr = 0
    /\ init_called = FALSE
    /\ tampered = [p \in Profiles |-> "no"]
    /\ vault_last = NoCall
    /\ last_cred = [p \in Profiles |-> None]
    /\ stored = [p \in Profiles |-> FALSE]

\* md5::compute(&key) rendered as hex: a fingerprint of the key.
key_hash(key) == <<"md5", key>>

\* CredentialVault::new on the same service name: a new instance (a process
\* restart) finds the keyring as it was left and holds no key.
NewVault ==
    /\ master_key' = None
    /\ init_called' = FALSE
    /\ vault_last' = NoCall
    /\ UNCHANGED <<keystore, master_rec, key_ctr, tampered, last_cred, stored>>
    /\ UNCHANGED <<validatorVars, testerVars, healthVars, otherVars>>

\* Takes the key the record is the fingerprint of.
ReloadsRecordedKey(rec, new_key) ==
    [ key |-> IF IsSome(rec) THEN Unwrap(rec).key_hash[2] ELSE new_key,
      rec |-> IF IsSome(rec) THEN rec ELSE Some([key_hash |-> key_hash(new_key)]) ]

\* load_or_create_master_key, given the master-key record found and the key
\* the random source hands out: the key to hold and the record to leave.
load_or_create_master_key(rec, new_key) ==
    [ key |-> new_key,
      rec |-> IF IsSome(rec) THEN rec ELSE Some([key_hash |-> key_hash(new_key)]) ]

\* Seals every entry that opens under the old key again under the new one.
RotateReencrypts(mk, ks, new_key) ==
    [ key |-> new_key,
      rec |-> Some([key_hash |-> key_hash(new_key)]),
      ks  |-> [ p \in Profiles |->
                 IF retrieve_credentials(mk, ks, p).ok
                 THEN store_credentials(Some(new_key), ks, p,
                                        retrieve_credentials(mk, ks, p).val, 1).ks[p]
                 ELSE ks[p] ] ]

\* rotate_master_key, given the key held, the entries and the key the random
\* source hands out: the key to hold, the record and the entries to leave.
rotate_master_key(mk, ks, new_key) ==
    [ key |-> new_key,
      rec |-> Some([key_hash |-> key_hash(new_key)]),
      ks  |-> ks ]

\* initialize / load_or_create_master_key
Initialize ==
    /\ key_ctr < MaxKeys
    /\ key_ctr' = key_ctr + 1
    /\ master_key' = Some(load_or_create_master_key(master_rec, key_ctr + 1).key)
    /\ master_rec' = load_or_create_master_key(master_rec, key_ctr + 1).rec
    /\ init_called' = TRUE
    /\ vault_last' = [op |-> "initialize", res |-> Ok("unit")]
    /\ last_cred' = [p \in Profiles |-> None]
    /\ UNCHANGED <<keystore, tampered, stored>>
    /\ UNCHANGED <<validatorVars, testerVars, healthVars, otherVars>>

RotateMasterKey ==
    /\ key_ctr < MaxKeys
    /\ key_ctr' = key_ctr + 1
    /\ master_key' = Some(rotate_master_key(master_key, keystore, key_ctr + 1).key)
    /\ master_rec' = rotate_master_key(master_key, keystore, key_ctr + 1).rec
    /\ keystore' = rotate_master_key(master_key, keystore, key_ctr + 1).ks
    /\ vault_last' = [op |-> "rotate_master_key", res |-> Ok("unit")]
    /\ last_cred' = [p \in Profiles |-> None]
    /\ UNCHANGED <<init_called, tampered, stored>>
    /\ UNCHANGED <<validatorVars, testerVars, healthVars, otherVars>>

Store(p, c, n) ==
    LET r == store_credentials(master_key, keystore, p, c, n)
    IN  /\ keystore' = r.ks
        /\ vault_last' = Call("store", p, r.res)
        /\ last_cred' = IF r.res.ok THEN [last_cred EXCEPT ![p] = Some(c)] ELSE last_cred
        /\ stored' = IF r.res.ok THEN [stored EXCEPT ![p] = TRUE] ELSE stored
        /\ tampered' = IF r.res.ok THEN [tampered EXCEPT ![p] = "no"] ELSE tampered
        /\ UNCHANGED <<master_key, master_rec, key_ctr, init_called>>
        /\ UNCHANGED <<validatorVars, testerVars, healthVars, otherVars>>

Retrieve(p) ==
    /\ vault_last' = Call("retrieve", p, retrieve_credentials(master_key, keystore, p))
    /\ UNCHANGED <<master_key, keystore, master_rec, key_ctr, init_called, tampered,
                   last_cred, stored>>
    /\ UNCHANGED <<validatorVars, testerVars, healthVars, otherVars>>

Update(p, c, n) ==
    LET r == update_credentials(master_key, keystore, p, c, n)
    IN  /\ keystore' = r.ks
        /\ vault_last' = Call("update", p, r.res)
        /\ last_cred' = IF r.res.ok THEN [last_cred EXCEPT ![p] = Some(c)] ELSE last_cred
        /\ stored' = IF r.res.ok THEN [stored EXCEPT ![p] = TRUE] ELSE stored
        /\ tampered' = IF r.res.ok THEN [tampered EXCEPT ![p] = "no"] ELSE tampered
        /\ UNCHANGED <<master_key, master_rec, key_ctr, init_called>>
        /\ UNCHANGED <<validatorVars, testerVars, healthVars, otherVars>>

Delete(p) ==
    LET r == delete_credentials(keystore, p)
    IN  /\ keystore' = r.ks
        /\ vault_last' = Call("delete", p, r.res)
        /\ last_cred' = IF r.res.ok THEN [last_cred EXCEPT ![p] = None] ELSE last_cred
        /\ stored' = IF r.res.ok THEN [stored EXCEPT ![p] = FALSE] ELSE stored
        /\ tampered' = IF r.res.ok THEN [tampered EXCEPT ![p] = "no"] ELSE tampered
        /\ UNCHANGED <<master_key, master_rec, key_ctr, init_called>>
        /\ UNCHANGED <<validatorVars, testerVars, healthVars, otherVars>>

HasCredentials(p) ==
    /\ vault_last' = Call("has_credentials", p, Ok(has_credentials(keystore, p)))
    /\ UNCHANGED <<master_key, keystore, master_rec, key_ctr, init_called, tampered,
                   last_cred, stored>>
    /\ UNCHANGED <<validatorVars, testerVars, healthVars, otherVars>>

\* What a record looks like once some other program has rewritten it in the
\* keyring: the ciphertext altered, the ciphertext or the nonce no longer
\* base64, or a nonce of 8 bytes instead of 12.
Corruptions == {"ciphertext_altered", "ciphertext_not_base64", "nonce_not_base64",
                "nonce_wrong_length"}

corrupted(record, how) ==
    LET encrypted == encrypted_from_json(record).val
        ciphertext == b64_decode(encrypted.encrypted_data).val
        nonce == b64_decode(encrypted.nonce).val
    IN  encrypted_to_json(
          CASE how = "ciphertext_altered" ->
                 [encrypted EXCEPT !.encrypted_data =
                     b64_encode([ciphertext EXCEPT !.k = 0])]
            [] how = "ciphertext_not_base64" ->
                 [encrypted EXCEPT !.encrypted_data = <<"%%%">>]
            [] how = "nonce_not_base64" ->
                 [encrypted EXCEPT !.nonce = <<"%%%">>]
            [] how = "nonce_wrong_length" ->
                 [encrypted EXCEPT !.nonce = b64_encode([nonce EXCEPT !.len = 8])])

\* The keyring entry of profile p is rewritten from outside the vault.
Corrupt(p, how) ==
    /\ IsSome(keystore[p])
    /\ tampered[p] = "no"
    /\ keystore' = [keystore EXCEPT ![p] = Some(corrupted(Unwrap(keystore[p]), how))]
    /\ tampered' = [tampered EXCEPT ![p] = how]
    /\ last_cred' = [last_cred EXCEPT ![p] = None]
    /\ vault_last' = NoCall
    /\ UNCHANGED <<master_key, master_rec, key_ctr, init_called, stored>>
    /\ UNCHANGED <<validatorVars, testerVars, healthVars, otherVars>>

NextVault ==
    \/ NewVault
    \/ Initialize
    \/ RotateMasterKey
    \/ \E p \in Profiles, c \in CredentialsSet, n \in Nonces : Store(p, c, n)
    \/ \E p \in Profiles : Retrieve(p)
    \/ \E p \in Profiles, c \in CredentialsSet, n \in Nonces : Update(p, c, n)
    \/ \E p \in Profiles : Delete(p)
    \/ \E p \in Profiles : HasCredentials(p)

\* A vault is initialized, stores and retrieves; entries are rewritten from
\* outside in between.
NextTamper ==
    \/ Initialize
    \/ \E p \in Profiles, c \in CredentialsSet, n \in Nonces : Store(p, c, n)
    \/ \E p \in Profiles : Retrieve(p)
    \/ \E p \in Profiles, how \in Corruptions : Corrupt(p, how)

(***************************************************************************)
(* The validator: a caller builds a configuration field by field and has   *)
(* it validated.                                                           *)
(***************************************************************************)
\* Fields a caller sets before validating.
MaxEdits == 3
\* Entries of a custom_parameters map.
MaxParams == 2

FieldValues ==
    [ host |-> HostValues,
      port |-> PortValues,
      database |-> NameValues,
      username |-> NameValues,
      connection_timeout |-> ConnTimeoutValues,
      query_timeout |-> QueryTimeoutValues,
      ssl_cert |-> PathValues,
      ssl_key |-> PathValues,
      ssl_ca |-> PathValues,
      custom_parameters |-> { S \in SUBSET ParamNames : Cardinality(S) <= MaxParams } ]

InitValidator ==
    /\ v_config = DefaultConfig
    /\ v_edits = 0
    /\ v_result = None

EditConfig(f, v) ==
    /\ v_edits < MaxEdits
    /\ v_config[f] # v
    /\ v_config' = [v_config EXCEPT ![f] = v]
    /\ v_edits' = v_edits + 1
    /\ v_result' = None
    /\ UNCHANGED <<vaultVars, testerVars, healthVars, otherVars>>

Validate(order) ==
    /\ v_result' = Some(validate_connection_config(v_config, order))
    /\ UNCHANGED <<v_config, v_edits, vaultVars, testerVars, healthVars, otherVars>>

NextValidator ==
    \/ \E f \in DOMAIN FieldValues : \E v \in FieldValues[f] : EditConfig(f, v)
    \/ \E order \in IterationOrders(v_config.custom_parameters) : Validate(order)

(***************************************************************************)
(* The health tracker.  A test_profile_connection call runs                *)
(* test_connection against a server following a script and records the     *)
(* outcome under the time Utc::now() shows when the test is over.          *)
(***************************************************************************)
AnswersAll == Behaviour("ok", "ok", Some("PostgreSQL 15.4"))
Refuses == Behaviour("refused", "ok", None)
ConnectHangs == Behaviour("never", "ok", None)

\* (config, options, script) of the calls made.
ProfileTests ==
    { <<DefaultConfig, DefaultOptions, <<AnswersAll, AnswersAll, AnswersAll>> >>,
      <<DefaultConfig, DefaultOptions, <<Refuses, ConnectHangs, AnswersAll>> >>,
      <<DefaultConfig, DefaultOptions, <<Refuses, Refuses, Refuses>> >>,
      <<[DefaultConfig EXCEPT !.host = Str(0, 0, TRUE)], DefaultOptions,
        <<AnswersAll, AnswersAll, AnswersAll>> >> }

NoHealthCall == [op |-> "none"]

InitHealth ==
    /\ health_history = [p \in Profiles |-> None]
    /\ h_now = 0
    /\ h_calls = 0
    /\ h_recorded = [p \in Profiles |-> <<>>]
    /\ h_last = NoHealthCall

\* test_profile_connection(profile, password, options) with profile.id = p;
\* the test takes `elapsed` hours.
TestProfileConnection(p, test, elapsed) ==
    LET r == test_connection(test[1], <<>>, test[2], test[3])
        health_result == health_check_result(r.result, h_now + elapsed)
    IN  /\ r.done
        /\ h_calls' = h_calls + 1
        /\ h_now' = h_now + elapsed
        /\ health_history' = push_health_result(health_history, p, health_result)
        /\ h_recorded' = [h_recorded EXCEPT ![p] = Append(@, health_result)]
        /\ h_last' = [op |-> "test_profile_connection", pid |-> p, result |-> r.result]
        /\ UNCHANGED <<vaultVars, validatorVars, testerVars, otherVars>>

\* calculate_uptime(profile_id, period_hours)
CalculateUptime(p, period_hours) ==
    /\ h_last' = [op |-> "calculate_uptime", pid |-> p, period_hours |-> period_hours,
                  now |-> h_now,
                  out |-> calculate_uptime(health_history, p, period_hours, h_now)]
    /\ UNCHANGED <<health_history, h_now, h_calls, h_recorded,
                   vaultVars, validatorVars, testerVars, otherVars>>

\* Time passes.
Tick ==
    /\ h_now' = h_now + 1
    /\ UNCHANGED <<health_history, h_calls, h_recorded, h_last,
                   vaultVars, validatorVars, testerVars, otherVars>>

(***************************************************************************)
(* Filling a history.  The clock moves on by one hour with every call.     *)
(* The first FreeCalls calls and the calls made once HealthCap calls have  *)
(* been made are any test of any profile; the calls in between are         *)
(* successful tests of profile "p1", which fill its history.               *)
(***************************************************************************)
\* Calls at the start that may be any test of any profile.
FreeCalls == 2
\* Calls beyond the capacity of one history.
MaxExtraCalls == 2

MaxCalls == HealthCap + MaxExtraCalls

FillingCall(p, test) ==
    /\ h_calls < MaxCalls
    /\ \/ h_calls < FreeCalls
       \/ h_calls >= HealthCap
       \/ p = "p1" /\ test_connection(test[1], <<>>, test[2], test[3]).result.success

NextHistory ==
    \E p \in Profiles, test \in ProfileTests :
        FillingCall(p, test) /\ TestProfileConnection(p, test, 1)

(***************************************************************************)
(* Reading the uptime of short histories.                                  *)
(***************************************************************************)
\* Calls recorded before the uptime is read.
MaxUptimeCalls == 3
\* Hours the clock runs.
MaxClock == 3

\* (config, options, script) of the calls made: one succeeds, one fails.
UptimeTests ==
    { <<DefaultConfig, DefaultOptions, <<AnswersAll, AnswersAll, AnswersAll>> >>,
      <<DefaultConfig, DefaultOptions, <<Refuses, Refuses, Refuses>> >> }

\* period_hours: u32
PeriodValues == {0, 1, 2, 3, U32Max}

NextUptime ==
    \/ \E p \in Profiles, test \in UptimeTests, elapsed \in {0, 1} :
          /\ h_calls < MaxUptimeCalls
          /\ h_now + elapsed <= MaxClock
          /\ TestProfileConnection(p, test, elapsed)
    \/ h_now < MaxClock /\ Tick
    \/ \E p \in Profiles, period_hours \in PeriodValues : CalculateUptime(p, period_hours)

(***************************************************************************)
(* test_connection, one step per await.                                    *)
(***************************************************************************)
\* Largest retry_attempts a caller passes explicitly.
MaxRetryOption == 2

TestConfigs ==
    { DefaultConfig,
      [DefaultConfig EXCEPT !.host = Str(0, 0, TRUE)],
      [DefaultConfig EXCEPT !.host = Str(0, 0, TRUE), !.port = 0,
                            !.database = Str(0, 0, TRUE)],
      [DefaultConfig EXCEPT !.connection_timeout = 301000, !.query_timeout = 0] }

Passwords == {"secret", ""}

TestOptions ==
    [ timeout_seconds : {None, Some(5), Some(60)},
      retry_attempts  : {None} \cup { Some(n) : n \in 0..MaxRetryOption },
      retry_delay_ms  : {None, Some(250)},
      test_query      : {None, Some("SELECT 1")} ]

Waits == {"in_time", "never"}

\* What client.simple_query(test_query) returns when it returns in time.
ProbeAnswers == {"rows", "error"}

ServerVersions == {None, Some("PostgreSQL 15.4")}

InitTester ==
    /\ t_pc = "idle"
    /\ t_config = DefaultConfig
    /\ t_password = ""
    /\ t_options = DefaultOptions
    /\ t_attempt = 0
    /\ t_wait = "none"
    /\ t_timer = None
    /\ t_probe = "none"
    /\ t_outcomes = <<>>
    /\ t_delays = 0
    /\ t_slept = <<>>
    /\ t_result = None

\* Entry of test_connection up to its first await.
StartTest(config, password, options, order, w) ==
    LET validation == validate_connection_config(config, order)
        branch == after_validation(validation, retry_attempts_of(options))
    IN  /\ t_pc = "idle"
        /\ t_config' = config
        /\ t_password' = password
        /\ t_options' = options
        /\ t_outcomes' = <<>>
        /\ t_delays' = 0
        /\ t_slept' = <<>>
        /\ t_probe' = "none"
        /\ IF branch = "attempt"
           THEN /\ t_pc' = "connect"
                /\ t_attempt' = 1
                /\ t_wait' = w
                /\ t_timer' = Some(connect_timeout_of(config, options))
                /\ t_result' = None
           ELSE /\ t_pc' = "returned"
                /\ t_attempt' = 0
                /\ t_wait' = "none"
                /\ t_timer' = None
                /\ t_result' = Some(IF branch = "validation_failed"
                                    THEN validation_failure_result(validation.err)
                                    ELSE fall_through_result)
        /\ UNCHANGED <<vaultVars, validatorVars, healthVars, otherVars>>

\* The Err arm of the loop: sleep and go round again, or return the failure.
AttemptFailed(e, query_result) ==
    /\ t_outcomes' = Append(t_outcomes, e)
    /\ t_probe' = query_result
    /\ t_wait' = "none"
    /\ IF after_failed_attempt(t_attempt, retry_attempts_of(t_options)) = "sleep"
       THEN /\ t_pc' = "sleep"
            /\ t_timer' = None
            /\ t_result' = None
       ELSE /\ t_pc' = "returned"
            /\ t_timer' = None
            /\ t_result' = Some(failure_result(t_config,
                                               reported_error(Append(t_outcomes, e))))
    /\ UNCHANGED <<t_config, t_password, t_options, t_attempt, t_delays, t_slept,
                   vaultVars, validatorVars, healthVars, otherVars>>

\* tokio_postgres::connect returns a client before the timeout.
ConnectOk(w) ==
    /\ t_pc = "connect"
    /\ t_wait = "in_time"
    /\ t_wait' = w
    /\ IF IsSome(t_options.test_query)
       THEN t_pc' = "probe" /\ t_timer' = Some(ProbeTimeoutSecs)
       ELSE t_pc' = "version" /\ t_timer' = None
    /\ UNCHANGED <<t_config, t_password, t_options, t_attempt, t_probe, t_outcomes,
                   t_delays, t_slept, t_result, vaultVars, validatorVars, healthVars,
                   otherVars>>

\* tokio_postgres::connect returns an error before the timeout.
ConnectErr(e) ==
    /\ t_pc = "connect"
    /\ t_wait = "in_time"
    /\ AttemptFailed(e, "none")

\* tokio::time::timeout gives up on the pending step.
StepTimeout ==
    /\ t_wait = "never"
    /\ IsSome(t_timer)
    /\ \/ t_pc = "connect" /\ AttemptFailed("connect_timed_out", "none")
       \/ /\ t_pc = "probe"
          /\ after_probe("elapsed") = "fail"
          /\ AttemptFailed("query_timed_out", "elapsed")

\* client.simple_query(test_query) returns, rows or an error, before the timeout.
ProbeDone(w, query_result) ==
    /\ t_pc = "probe"
    /\ t_wait = "in_time"
    /\ IF after_probe(query_result) = "version"
       THEN /\ t_pc' = "version"
            /\ t_wait' = w
            /\ t_timer' = None
            /\ t_probe' = query_result
            /\ UNCHANGED <<t_config, t_password, t_options, t_attempt, t_outcomes,
                           t_delays, t_slept, t_result, vaultVars, validatorVars,
                           healthVars, otherVars>>
       ELSE AttemptFailed("query_timed_out", query_result)

\* get_server_version returns; the Ok arm of the loop returns the success.
VersionDone(server_version) ==
    /\ t_pc = "version"
    /\ t_wait = "in_time"
    /\ t_pc' = "returned"
    /\ t_wait' = "none"
    /\ t_timer' = None
    /\ t_outcomes' = Append(t_outcomes, "ok")
    /\ t_result' = Some(success_result(t_config, server_version))
    /\ UNCHANGED <<t_config, t_password, t_options, t_attempt, t_probe, t_delays, t_slept,
                   vaultVars, validatorVars, healthVars, otherVars>>

\* tokio::time::sleep(retry_delay) ends; the loop starts the next attempt.
SleepDone(w) ==
    /\ t_pc = "sleep"
    /\ t_pc' = "connect"
    /\ t_attempt' = t_attempt + 1
    /\ t_delays' = t_delays + 1
    /\ t_slept' = Append(t_slept, retry_sleep(retry_delay_of(t_options), t_attempt))
    /\ t_wait' = w
    /\ t_timer' = Some(connect_timeout_of(t_config, t_options))
    /\ t_probe' = "none"
    /\ UNCHANGED <<t_config, t_password, t_options, t_outcomes, t_result,
                   vaultVars, validatorVars, healthVars, otherVars>>

\* The caller takes the result; the service is ready for the next call.
TakeResult ==
    /\ t_pc = "returned"
    /\ t_pc' = "idle"
    /\ t_config' = DefaultConfig
    /\ t_password' = ""
    /\ t_options' = DefaultOptions
    /\ t_attempt' = 0
    /\ t_wait' = "none"
    /\ t_timer' = None
    /\ t_probe' = "none"
    /\ t_outcomes' = <<>>
    /\ t_delays' = 0
    /\ t_slept' = <<>>
    /\ t_result' = None
    /\ UNCHANGED <<vaultVars, validatorVars, healthVars, otherVars>>

TesterStep ==
    \/ \E w \in Waits : ConnectOk(w)
    \/ \E e \in ConnectErrors : ConnectErr(e)
    \/ StepTimeout
    \/ \E w \in Waits, query_result \in ProbeAnswers : ProbeDone(w, query_result)
    \/ \E v \in ServerVersions : VersionDone(v)
    \/ \E w \in Waits : SleepDone(w)

Next ==
    \/ \E config \in TestConfigs, password \in Passwords, options \in TestOptions :
         \E order \in IterationOrders(config.custom_parameters), w \in Waits :
            StartTest(config, password, options, order, w)
    \/ TesterStep
    \/ TakeResult

(***************************************************************************)
(* The operations of one ConnectionHealthService, each as one step: the    *)
(* calls that record in health_history next to those that only read it or  *)
(* do not touch it.                                                        *)
(***************************************************************************)
\* get_health_history(profile_id) and get_current_health(profile_id)
ReadOnlyCall(op, p) ==
    /\ h_last' = [op |-> op, pid |-> p,
                  out |-> IF op = "get_health_history"
                          THEN get_health_history(health_history, p)
                          ELSE get_current_health(health_history, p)]
    /\ UNCHANGED <<health_history, h_now, h_calls, h_recorded,
                   vaultVars, validatorVars, testerVars, otherVars>>

\* validate_connection_config(config) called on the service
ValidateConfig(config, order) ==
    /\ h_last' = [op |-> "validate_connection_config",
                  out |-> validate_connection_config(config, order)]
    /\ UNCHANGED <<health_history, h_now, h_calls, h_recorded,
                   vaultVars, validatorVars, testerVars, otherVars>>

\* test_connection(config, password, options) called on its own (test_config)
TestConfig(test) ==
    LET r == test_connection(test[1], <<>>, test[2], test[3])
    IN  /\ r.done
        /\ h_last' = [op |-> "test_connection", result |-> r.result]
        /\ UNCHANGED <<health_history, h_now, h_calls, h_recorded,
                       vaultVars, validatorVars, testerVars, otherVars>>

\* While the history of "p1" is being filled only the filling calls are made.
OutsideFilling == h_calls <= FreeCalls \/ h_calls >= HealthCap

NextService ==
    \/ \E p \in Profiles, test \in UptimeTests :
          FillingCall(p, test) /\ TestProfileConnection(p, test, 1)
    \/ \E p \in Profiles, op \in {"get_health_history", "get_current_health"} :
          OutsideFilling /\ ReadOnlyCall(op, p)
    \/ \E p \in Profiles, period_hours \in PeriodValues :
          OutsideFilling /\ CalculateUptime(p, period_hours)
    \/ \E config \in TestConfigs : \E order \in IterationOrders(config.custom_parameters) :
          OutsideFilling /\ ValidateConfig(config, order)
    \/ \E test \in ProfileTests : OutsideFilling /\ TestConfig(test)

(***************************************************************************)
(* One ConnectionHealthService shared by several callers.  Each caller     *)
(* runs test_profile_connection for the same profile id, one call after    *)
(* another; a call is a test, the wait for the Mutex around                 *)
(* health_history, the push and the trim.  Readers take the same Mutex.    *)
(* The clock shows a new value at every reading.                           *)
(***************************************************************************)
\* Tasks calling test_profile_connection on the shared service.
MaxCallers == 2

Callers == 1..MaxCallers

SharedProfile == "p1"

LockAlwaysGranted(lock) == TRUE

\* health_history.lock().await returns the guard when no task holds it.
can_lock(lock) == lock = 0

\* entry(profile.id).or_insert_with(Vec::new), push
push_result(history, profile_id, health_result) ==
    LET profile_history == IF IsSome(history[profile_id])
                           THEN Unwrap(history[profile_id]) ELSE <<>>
    IN  [history EXCEPT ![profile_id] = Some(Append(profile_history, health_result))]

\* if profile_history.len() > 100 { drain }
trim_history(history, profile_id) ==
    [history EXCEPT ![profile_id] = Some(drain_oldest(Unwrap(history[profile_id])))]

InitLock ==
    /\ call_pc = [c \in Callers |-> "idle"]
    /\ call_pending = [c \in Callers |-> None]
    /\ history_lock = 0
    /\ calls_returned = 0

\* Calls overlap at the start of a history and when it is about to be full;
\* in between caller 1 fills it, call after call, once the others are back.
MayCall(c, test) ==
    /\ FillingCall(SharedProfile, test)
    /\ h_calls >= FreeCalls => test = <<DefaultConfig, DefaultOptions,
                                         <<AnswersAll, AnswersAll, AnswersAll>> >>
    /\ \/ h_calls < FreeCalls
       \/ h_calls >= HealthCap - 1
       \/ c = 1 /\ \A d \in Callers \ {1} : call_pc[d] = "idle"

\* test_profile_connection up to lock(): the test is over and the
\* health_result is built under the time the clock shows.
TestFinished(c, test) ==
    LET r == test_connection(test[1], <<>>, test[2], test[3])
    IN  /\ call_pc[c] = "idle"
        /\ MayCall(c, test)
        /\ r.done
        /\ h_now' = h_now + 1
        /\ h_calls' = h_calls + 1
        /\ call_pending' = [call_pending EXCEPT
                               ![c] = Some(health_check_result(r.result, h_now + 1))]
        /\ call_pc' = [call_pc EXCEPT ![c] = "waiting"]
        /\ h_last' = NoHealthCall
        /\ UNCHANGED <<health_history, h_recorded, history_lock, calls_returned>>
        /\ UNCHANGED <<vaultVars, validatorVars, testerVars, classifyVars, storeVars,
                   commandVars>>

LockHistory(c) ==
    /\ call_pc[c] = "waiting"
    /\ can_lock(history_lock)
    /\ history_lock' = c
    /\ call_pc' = [call_pc EXCEPT ![c] = "locked"]
    /\ h_last' = NoHealthCall
    /\ UNCHANGED <<health_history, h_now, h_calls, h_recorded, call_pending,
                   calls_returned>>
    /\ UNCHANGED <<vaultVars, validatorVars, testerVars, classifyVars, storeVars,
                   commandVars>>

PushResult(c) ==
    /\ call_pc[c] = "locked"
    /\ health_history' = push_result(health_history, SharedProfile, Unwrap(call_pending[c]))
    /\ h_recorded' = [h_recorded EXCEPT ![SharedProfile] = Append(@, Unwrap(call_pending[c]))]
    /\ call_pc' = [call_pc EXCEPT ![c] = "pushed"]
    /\ h_last' = NoHealthCall
    /\ UNCHANGED <<h_now, h_calls, call_pending, history_lock, calls_returned>>
    /\ UNCHANGED <<vaultVars, validatorVars, testerVars, classifyVars, storeVars,
                   commandVars>>

\* The trim, and the return, which drops the guard.
TrimAndReturn(c) ==
    /\ call_pc[c] = "pushed"
    /\ health_history' = trim_history(health_history, SharedProfile)
    /\ history_lock' = 0
    /\ calls_returned' = calls_returned + 1
    /\ call_pending' = [call_pending EXCEPT ![c] = None]
    /\ call_pc' = [call_pc EXCEPT ![c] = "idle"]
    /\ h_last' = NoHealthCall
    /\ UNCHANGED <<h_now, h_calls, h_recorded>>
    /\ UNCHANGED <<vaultVars, validatorVars, testerVars, classifyVars, storeVars,
                   commandVars>>

ReadOps == {"get_health_history", "get_current_health", "calculate_uptime"}

\* A reader takes the Mutex, reads and drops the guard: no await in between.
ReadHistory(op) ==
    /\ can_lock(history_lock)
    /\ h_last' = [op |-> op, pid |-> SharedProfile, completed |-> calls_returned,
                  now |-> h_now,
                  out |-> CASE op = "get_health_history" ->
                                 get_health_history(health_history, SharedProfile)
                            [] op = "get_current_health" ->
                                 get_current_health(health_history, SharedProfile)
                            [] op = "calculate_uptime" ->
                                 calculate_uptime(health_history, SharedProfile, 1, h_now)]
    /\ UNCHANGED <<health_history, h_now, h_calls, h_recorded, lockVars>>
    /\ UNCHANGED <<vaultVars, validatorVars, testerVars, classifyVars, storeVars,
                   commandVars>>

NextShared ==
    \/ \E c \in Callers, test \in UptimeTests : TestFinished(c, test)
    \/ \E c \in Callers : LockHistory(c)
    \/ \E c \in Callers : PushResult(c)
    \/ \E c \in Callers : TrimAndReturn(c)
    \/ \E op \in ReadOps : ReadHistory(op)

(***************************************************************************)
(* analyze_connection_error over texts: a text is a set of at most         *)
(* MaxFragments fragments, each a searched word in lower case or           *)
(* capitalised, or a word the classifier does not search for.              *)
(***************************************************************************)
MaxFragments == 3

Fragments ==
    Needles \cup { Capitalised[needle] : needle \in Needles } \cup {"Connection", "query"}

Texts == { text \in SUBSET Fragments : Cardinality(text) <= MaxFragments }

InitClassify ==
    /\ cl_text = {}
    /\ cl_out = None

Analyze ==
    /\ cl_out = None
    /\ cl_out' = Some(analyze_connection_error(cl_text))
    /\ UNCHANGED <<cl_text, vaultVars, validatorVars, testerVars, healthVars,
                   lockVars, storeVars, commandVars>>

NextClassify == Analyze

(***************************************************************************)
(* ConnectionProfileStore with concurrent create_profile calls.  A profile *)
(* is kept by its id and its name.  Each creator makes one call; creator c *)
(* passes id c or id 1, and name c or name 1.                              *)
(***************************************************************************)
\* Tasks calling create_profile on the shared store.
MaxCreators == 3

Creators == 1..MaxCreators

ProfilesOf(c) == [id : {c, 1}, name : {c, 1}, use_count : {0}]

ProfileAlreadyExists(what) == [kind |-> "ProfileAlreadyExists", what |-> what]

Unlocked == [writer |-> 0, readers |-> {}]

\* RwLock::read().await returns a guard when no task holds the write guard.
can_read(lock) == lock.writer = 0

WriteAlwaysGranted(lock) == TRUE

\* RwLock::write().await returns the guard when no task holds any guard.
can_write(lock) == lock.writer = 0 /\ lock.readers = {}

\* HashMap::new(), contains_key and insert; a map is a function from the
\* keys it holds to their values.
EmptyMap == <<>>

contains_key(profiles, key) == key \in DOMAIN profiles

insert(profiles, key, profile) ==
    [k \in DOMAIN profiles \cup {key} |-> IF k = key THEN profile ELSE profiles[k]]

\* profiles.values() as a set, for any() and find().
values(profiles) == { profiles[k] : k \in DOMAIN profiles }

\* The two checks of create_profile.
create_check(profiles, profile) ==
    IF contains_key(profiles, profile.id)
    THEN Err(ProfileAlreadyExists(<<"id", profile.id>>))
    ELSE IF \E q \in values(profiles) : q.name = profile.name
    THEN Err(ProfileAlreadyExists(<<"name", profile.name>>))
    ELSE Ok("unit")

\* The StoredProfileData save_to_disk builds: profiles.values() collected in
\* the order the map is iterated in, `order` being an order of its keys.
stored_data(profiles, order) ==
    [profile_count |-> Cardinality(DOMAIN profiles),
     profiles |-> [i \in 1..Len(order) |-> profiles[order[i]]]]

InitStore ==
    /\ store_profiles = EmptyMap
    /\ store_file = None
    /\ profiles_lock = Unlocked
    /\ metadata_lock = Unlocked
    /\ create_pc = [c \in Creators |-> "idle"]
    /\ create_arg = [c \in Creators |-> None]
    /\ create_data = [c \in Creators |-> None]
    /\ create_res = [c \in Creators |-> None]
    /\ store_last = None

\* create_profile up to drop(profiles): the write guard is taken, the
\* checks and the insert are made, and the guard is dropped.
InsertProfile(c, profile) ==
    LET check == create_check(store_profiles, profile)
    IN  /\ create_pc[c] = "idle"
        /\ can_write(profiles_lock)
        /\ create_arg' = [create_arg EXCEPT ![c] = Some(profile)]
        /\ IF check.ok
           THEN /\ store_profiles' = insert(store_profiles, profile.id, profile)
                /\ create_pc' = [create_pc EXCEPT ![c] = "save"]
                /\ create_res' = create_res
           ELSE /\ store_profiles' = store_profiles
                /\ create_pc' = [create_pc EXCEPT ![c] = "returned"]
                /\ create_res' = [create_res EXCEPT ![c] = Some(check)]
        /\ UNCHANGED <<store_file, profiles_lock, metadata_lock, create_data, store_last>>
        /\ UNCHANGED <<vaultVars, validatorVars, testerVars, healthVars, lockVars,
                       classifyVars, commandVars>>

\* save_to_disk: self.profiles.read().await
SaveReadProfiles(c) ==
    /\ create_pc[c] = "save"
    /\ can_read(profiles_lock)
    /\ profiles_lock' = [profiles_lock EXCEPT !.readers = @ \cup {c}]
    /\ create_pc' = [create_pc EXCEPT ![c] = "save_metadata"]
    /\ UNCHANGED <<store_profiles, store_file, metadata_lock, create_arg, create_data,
                   create_res, store_last>>
    /\ UNCHANGED <<vaultVars, validatorVars, testerVars, healthVars, lockVars,
                   classifyVars, commandVars>>

\* save_to_disk: self.metadata.write().await, and the data to write is built
SaveWriteMetadata(c, order) ==
    /\ create_pc[c] = "save_metadata"
    /\ can_write(metadata_lock)
    /\ metadata_lock' = [metadata_lock EXCEPT !.writer = c]
    /\ create_data' = [create_data EXCEPT ![c] = Some(stored_data(store_profiles, order))]
    /\ create_pc' = [create_pc EXCEPT ![c] = "write"]
    /\ UNCHANGED <<store_profiles, store_file, profiles_lock, create_arg, create_res,
                   store_last>>
    /\ UNCHANGED <<vaultVars, validatorVars, testerVars, healthVars, lockVars,
                   classifyVars, commandVars>>

\* save_to_disk: fs::write, both guards dropped; create_profile returns.
WriteFile(c) ==
    /\ create_pc[c] = "write"
    /\ store_file' = create_data[c]
    /\ profiles_lock' = [profiles_lock EXCEPT !.readers = @ \ {c}]
    /\ metadata_lock' = Unlocked
    /\ create_data' = [create_data EXCEPT ![c] = None]
    /\ create_res' = [create_res EXCEPT ![c] = Some(Ok(Unwrap(create_arg[c])))]
    /\ create_pc' = [create_pc EXCEPT ![c] = "returned"]
    /\ UNCHANGED <<store_profiles, create_arg, store_last>>
    /\ UNCHANGED <<vaultVars, validatorVars, testerVars, healthVars, lockVars,
                   classifyVars, commandVars>>

\* get_all_profiles, with how many create_profile calls had returned by then.
GetAllProfiles(order) ==
    /\ can_read(profiles_lock)
    /\ store_last' = Some([returned |-> Cardinality({c \in Creators :
                                                       create_pc[c] = "returned"}),
                           out |-> stored_data(store_profiles, order).profiles])
    /\ UNCHANGED <<store_profiles, store_file, profiles_lock, metadata_lock, create_pc,
                   create_arg, create_data, create_res>>
    /\ UNCHANGED <<vaultVars, validatorVars, testerVars, healthVars, lockVars,
                   classifyVars, commandVars>>

NextStore ==
    \/ \E c \in Creators : \E profile \in ProfilesOf(c) : InsertProfile(c, profile)
    \/ \E c \in Creators : SaveReadProfiles(c)
    \/ \E c \in Creators, order \in IterationOrders(DOMAIN store_profiles) :
          SaveWriteMetadata(c, order)
    \/ \E c \in Creators : WriteFile(c)
    \/ \E order \in IterationOrders(DOMAIN store_profiles) : GetAllProfiles(order)

(***************************************************************************)
(* ConnectionProfileStore used by one caller at a time, as behind the      *)
(* Mutex of the command layer: each operation runs to its end, its         *)
(* save_to_disk included, before the next one starts.                      *)
(***************************************************************************)
\* Times a profile is marked used.
MaxUses == 1

\* Profile ids and names callers pass.
StoreIds == {1, 2}

StoreProfiles == [id : StoreIds, name : StoreIds, use_count : {0}]

StoreProfileNotFound(id) == [kind |-> "ProfileNotFound", what |-> id]

create_profile(profiles, profile) ==
    LET check == create_check(profiles, profile)
    IN  IF ~check.ok THEN [res |-> check, profiles |-> profiles]
        ELSE [res |-> Ok(profile), profiles |-> insert(profiles, profile.id, profile)]

get_profile(profiles, id) ==
    IF contains_key(profiles, id) THEN Ok(profiles[id]) ELSE Err(StoreProfileNotFound(id))

update_profile(profiles, id, updated_profile) ==
    IF ~contains_key(profiles, id)
    THEN [res |-> Err(StoreProfileNotFound(id)), profiles |-> profiles]
    ELSE IF \E existing \in values(profiles) :
                existing.name = updated_profile.name /\ existing.id # id
    THEN [res |-> Err(ProfileAlreadyExists(<<"name", updated_profile.name>>)),
          profiles |-> profiles]
    ELSE LET kept == [updated_profile EXCEPT !.use_count = profiles[id].use_count]
         IN  [res |-> Ok(kept), profiles |-> insert(profiles, id, kept)]

delete_profile(profiles, id) ==
    IF ~contains_key(profiles, id)
    THEN [res |-> Err(StoreProfileNotFound(id)), profiles |-> profiles]
    ELSE [res |-> Ok(profiles[id]),
          profiles |-> [k \in DOMAIN profiles \ {id} |-> profiles[k]]]

mark_profile_used(profiles, id) ==
    IF ~contains_key(profiles, id)
    THEN [res |-> Err(StoreProfileNotFound(id)), profiles |-> profiles]
    ELSE LET updated_profile == [profiles[id] EXCEPT !.use_count = @ + 1]
         IN  [res |-> Ok(updated_profile),
              profiles |-> insert(profiles, id, updated_profile)]

\* The loop of load_profiles: every stored profile is inserted under its id
\* field, in the order of the file.
RECURSIVE insert_all(_, _)
insert_all(profiles, stored_profiles) ==
    IF stored_profiles = <<>> THEN profiles
    ELSE insert_all(insert(profiles, Head(stored_profiles).id, Head(stored_profiles)),
                    Tail(stored_profiles))

\* load_profiles, given the map held and the file found.
load_profiles(profiles, file) ==
    IF ~IsSome(file) THEN [res |-> Ok(<<>>), profiles |-> profiles]
    ELSE [res |-> Ok(Unwrap(file).profiles),
          profiles |-> insert_all(EmptyMap, Unwrap(file).profiles)]

\* The end of an operation that changes the map: save_to_disk and return.
SaveAndReturn(op, id, r) ==
    /\ store_profiles' = r.profiles
    /\ IF r.res.ok
       THEN \E order \in IterationOrders(DOMAIN r.profiles) :
               store_file' = Some(stored_data(r.profiles, order))
       ELSE store_file' = store_file
    /\ store_last' = Some([op |-> op, id |-> id, res |-> r.res])
    /\ UNCHANGED <<profiles_lock, metadata_lock, create_pc, create_arg, create_data,
                   create_res>>
    /\ UNCHANGED <<vaultVars, validatorVars, testerVars, healthVars, lockVars,
                   classifyVars, commandVars>>

CreateProfile(profile) ==
    SaveAndReturn("create_profile", profile.id, create_profile(store_profiles, profile))

UpdateProfile(id, updated_profile) ==
    SaveAndReturn("update_profile", id, update_profile(store_profiles, id, updated_profile))

DeleteProfile(id) ==
    SaveAndReturn("delete_profile", id, delete_profile(store_profiles, id))

MarkProfileUsed(id) ==
    /\ contains_key(store_profiles, id) => store_profiles[id].use_count < MaxUses
    /\ SaveAndReturn("mark_profile_used", id, mark_profile_used(store_profiles, id))

GetProfile(id) ==
    /\ store_last' = Some([op |-> "get_profile", id |-> id,
                           res |-> get_profile(store_profiles, id)])
    /\ UNCHANGED <<store_profiles, store_file, profiles_lock, metadata_lock, create_pc,
                   create_arg, create_data, create_res>>
    /\ UNCHANGED <<vaultVars, validatorVars, testerVars, healthVars, lockVars,
                   classifyVars, commandVars>>

\* ConnectionProfileStore::new on the same path, then load_profiles.
LoadProfiles ==
    /\ store_profiles' = load_profiles(EmptyMap, store_file).profiles
    /\ store_last' = Some([op |-> "load_profiles", id |-> 0,
                           res |-> load_profiles(EmptyMap, store_file).res])
    /\ UNCHANGED <<store_file, profiles_lock, metadata_lock, create_pc, create_arg,
                   create_data, create_res>>
    /\ UNCHANGED <<vaultVars, validatorVars, testerVars, healthVars, lockVars,
                   classifyVars, commandVars>>

NextProfiles ==
    \/ \E profile \in StoreProfiles : CreateProfile(profile)
    \/ \E id \in StoreIds, profile \in StoreProfiles : UpdateProfile(id, profile)
    \/ \E id \in StoreIds : DeleteProfile(id)
    \/ \E id \in StoreIds : MarkProfileUsed(id)
    \/ \E id \in StoreIds : GetProfile(id)
    \/ LoadProfiles

(***************************************************************************)
(* The health commands of the Tauri layer.  The application manages one    *)
(* Arc<Mutex<ConnectionHealthService>>; every command locks it on entry    *)
(* and keeps the guard in a local until it returns.  Each task invokes one *)
(* command; a test is a sequence of attempts and retry delays.             *)
(***************************************************************************)
\* Tasks invoking commands.
MaxCommands == 3

Tasks == 1..MaxCommands

TestCommands == {"test_connection_config", "test_connection_profile"}

HealthCommands ==
    TestCommands \cup {"validate_connection_config", "get_profile_health_history",
                       "get_profile_current_health", "calculate_profile_uptime"}

\* The positions of a test in progress.
InTest == {"attempt", "sleep"}

\* Lets the guard go before the test runs.
GuardDroppedBeforeTest(kind) == kind \notin TestCommands

\* `let service = health_service.lock().await;`: the guard lives in the
\* local `service` until the command returns.
guard_held_to_return(kind) == TRUE

InitCommands ==
    /\ service_lock = 0
    /\ cmd_kind = [k \in Tasks |-> "none"]
    /\ cmd_pc = [k \in Tasks |-> "idle"]
    /\ cmd_attempt = [k \in Tasks |-> 0]
    /\ cmd_met = [k \in Tasks |-> {}]
    /\ cmd_seen = [k \in Tasks |-> {}]

\* The frontend invokes a command; it goes to health_service.lock().await.
Invoke(k, kind) ==
    /\ cmd_pc[k] = "idle"
    /\ cmd_kind' = [cmd_kind EXCEPT ![k] = kind]
    /\ cmd_pc' = [cmd_pc EXCEPT ![k] = "waiting"]
    /\ cmd_met' = [cmd_met EXCEPT ![k] = { j \in Tasks : cmd_pc[j] \in InTest }]
    /\ UNCHANGED <<service_lock, cmd_attempt, cmd_seen>>
    /\ UNCHANGED <<vaultVars, validatorVars, testerVars, healthVars, lockVars,
                   classifyVars, storeVars>>

\* health_service.lock().await returns the guard.
LockService(k) ==
    /\ cmd_pc[k] = "waiting"
    /\ can_lock(service_lock)
    /\ service_lock' = IF guard_held_to_return(cmd_kind[k]) THEN k ELSE 0
    /\ cmd_pc' = [cmd_pc EXCEPT ![k] = IF cmd_kind[k] \in TestCommands
                                        THEN "attempt" ELSE "body"]
    /\ cmd_attempt' = [cmd_attempt EXCEPT ![k] = IF cmd_kind[k] \in TestCommands
                                                  THEN 1 ELSE 0]
    /\ UNCHANGED <<cmd_kind, cmd_met, cmd_seen>>
    /\ UNCHANGED <<vaultVars, validatorVars, testerVars, healthVars, lockVars,
                   classifyVars, storeVars>>

\* The command returns: the guard is dropped.  test_connection_profile has
\* recorded its result in the health history before.
ReturnFromCommand(k, result) ==
    /\ cmd_pc' = [cmd_pc EXCEPT ![k] = "returned"]
    /\ service_lock' = IF service_lock = k THEN 0 ELSE service_lock
    /\ cmd_seen' = [cmd_seen EXCEPT ![k] = { j \in Tasks \ {k} : cmd_pc[j] \in InTest }]
    /\ IF cmd_kind[k] = "test_connection_profile"
       THEN LET health_result == health_check_result(result, h_now)
            IN  /\ health_history' =
                      push_health_result(health_history, SharedProfile, health_result)
                /\ h_recorded' = [h_recorded EXCEPT ![SharedProfile] =
                                                        Append(@, health_result)]
                /\ h_calls' = h_calls + 1
       ELSE UNCHANGED <<health_history, h_recorded, h_calls>>
    /\ UNCHANGED <<h_now, h_last, cmd_kind, cmd_attempt, cmd_met>>
    /\ UNCHANGED <<vaultVars, validatorVars, testerVars, lockVars, classifyVars,
                   storeVars>>

\* An attempt of the test fails: the retry delay starts, or the test gives up.
CommandAttemptFails(k) ==
    /\ cmd_pc[k] = "attempt"
    /\ IF after_failed_attempt(cmd_attempt[k], DefaultRetryAttempts) = "sleep"
       THEN /\ cmd_pc' = [cmd_pc EXCEPT ![k] = "sleep"]
            /\ UNCHANGED <<service_lock, cmd_kind, cmd_attempt, cmd_met, cmd_seen>>
            /\ UNCHANGED <<vaultVars, validatorVars, testerVars, healthVars, lockVars,
                           classifyVars, storeVars>>
       ELSE ReturnFromCommand(k, failure_result(DefaultConfig, "refused"))

\* The retry delay ends and the next attempt starts.
CommandSleepEnds(k) ==
    /\ cmd_pc[k] = "sleep"
    /\ cmd_pc' = [cmd_pc EXCEPT ![k] = "attempt"]
    /\ cmd_attempt' = [cmd_attempt EXCEPT ![k] = @ + 1]
    /\ UNCHANGED <<service_lock, cmd_kind, cmd_met, cmd_seen>>
    /\ UNCHANGED <<vaultVars, validatorVars, testerVars, healthVars, lockVars,
                   classifyVars, storeVars>>

\* An attempt of the test succeeds.
CommandAttemptSucceeds(k) ==
    /\ cmd_pc[k] = "attempt"
    /\ ReturnFromCommand(k, success_result(DefaultConfig, None))

\* A command that makes no test runs its one call on the service.
CommandBody(k) ==
    /\ cmd_pc[k] = "body"
    /\ ReturnFromCommand(k, None)

NextCommands ==
    \/ \E k \in Tasks, kind \in HealthCommands : Invoke(k, kind)
    \/ \E k \in Tasks : LockService(k)
    \/ \E k \in Tasks : CommandAttemptFails(k)
    \/ \E k \in Tasks : CommandSleepEnds(k)
    \/ \E k \in Tasks : CommandAttemptSucceeds(k)
    \/ \E k \in Tasks : CommandBody(k)

Init ==
    /\ InitVault /\ InitValidator /\ InitTester /\ InitHealth
    /\ InitLock /\ InitClassify /\ InitStore /\ InitCommands

SpecShared == Init /\ [][NextShared]_vars

\* The classifier is handed any text.
InitAnyText ==
    /\ InitVault /\ InitValidator /\ InitTester /\ InitHealth
    /\ InitLock /\ InitStore /\ InitCommands
    /\ cl_text \in Texts
    /\ cl_out = None

SpecClassify == InitAnyText /\ [][NextClassify]_vars

SpecProfiles == Init /\ [][NextProfiles]_vars

SpecCommands == Init /\ [][NextCommands]_vars

SpecStore == Init /\ [][NextStore]_vars

Spec == Init /\ [][Next]_vars

\* Every step of a running test is taken once it can be: the runtime polls
\* the future, timers fire, and a server that answers in time is heard.
SpecFair == Spec /\ WF_vars(TesterStep)

SpecService == Init /\ [][NextService]_vars

SpecHistory == Init /\ [][NextHistory]_vars

SpecUptime == Init /\ [][NextUptime]_vars

SpecVault == Init /\ [][NextVault]_vars

SpecTamper == Init /\ [][NextTamper]_vars

SpecValidator == Init /\ [][NextValidator]_vars

(***************************************************************************)
(* Properties.                                                             *)
(***************************************************************************)
SameLogin(c, d) == c.username = d.username /\ c.password = d.password

\* C1: on an initialized vault, retrieve(p) returns the username and password
\* of the most recent successful store(p, .) or update(p, .), as long as no
\* delete(p), rotate_master_key or initialize came after it; calls on other
\* profile ids in between change nothing.
C1_RetrieveReturnsLastStored ==
    /\ \A p \in Profiles :
          (IsSome(master_key) /\ IsSome(last_cred[p])) =>
              LET r == retrieve_credentials(master_key, keystore, p)
              IN  r.ok /\ SameLogin(r.val, Unwrap(last_cred[p]))
    /\ (vault_last.op = "retrieve" /\ vault_last.init
            /\ IsSome(last_cred[vault_last.pid])) =>
          /\ vault_last.res.ok
          /\ SameLogin(vault_last.res.val, Unwrap(last_cred[vault_last.pid]))

\* A retrieve of "p1" under the second master key returned the updated
\* password while "p2" holds an entry of its own.
C1_Witness ==
    /\ vault_last.op = "retrieve"
    /\ vault_last.pid = "p1"
    /\ vault_last.res.ok
    /\ vault_last.res.val.password = "pw2"
    /\ IsSome(last_cred["p1"])
    /\ IsSome(keystore["p2"])
    /\ master_key = Some(2)

ConfigRejected(config) == ~validate_connection_config(config, <<>>).ok

\* C2: test_connection on a config the validator rejects returns
\* success = false with error_code VALIDATION_ERROR and makes no connection
\* attempt and sleeps no retry delay, whatever the password and options.
C2_RejectedConfigMakesNoAttempt ==
    (t_pc # "idle" /\ ConfigRejected(t_config)) =>
        /\ t_pc = "returned"
        /\ IsSome(t_result)
        /\ ~Unwrap(t_result).success
        /\ Unwrap(t_result).error_code = Some("VALIDATION_ERROR")
        /\ t_attempt = 0
        /\ t_outcomes = <<>>
        /\ t_delays = 0

\* A rejected config tested with a password and retry_attempts = 0 returned.
C2_Witness ==
    /\ t_pc = "returned"
    /\ ConfigRejected(t_config)
    /\ t_password = "secret"
    /\ t_options.retry_attempts = Some(0)
    /\ Unwrap(t_result).error_code = Some("VALIDATION_ERROR")

\* C3: for a valid config and retry_attempts = N, test_connection never
\* starts more than N attempts; it returns success = false after exactly N
\* attempts that all failed, and success = true after exactly k <= N attempts
\* of which only the last succeeded.
C3_AttemptsMade ==
    (t_pc # "idle" /\ ~ConfigRejected(t_config)) =>
        LET N == retry_attempts_of(t_options)
            k == Len(t_outcomes)
        IN  /\ t_attempt <= N
            /\ t_pc = "returned" =>
                  /\ IsSome(t_result)
                  /\ k = t_attempt
                  /\ \A i \in 1..(k - 1) : t_outcomes[i] # "ok"
                  /\ Unwrap(t_result).success <=> (k > 0 /\ t_outcomes[k] = "ok")
                  /\ ~Unwrap(t_result).success =>
                        k = N /\ \A i \in 1..k : t_outcomes[i] # "ok"

\* With the default of three attempts, two failed and the third succeeded.
C3_Witness ==
    /\ t_pc = "returned"
    /\ t_options.retry_attempts = None
    /\ Len(t_outcomes) = 3
    /\ t_outcomes[1] # "ok"
    /\ t_outcomes[2] # "ok"
    /\ t_outcomes[3] = "ok"
    /\ Unwrap(t_result).success

\* C4: every invocation of test_connection eventually returns a result,
\* whether the server refuses, returns an error, or hangs forever at the
\* connect step, at the probe query or at the server-version query.
C4_EveryInvocationReturns == (t_pc # "idle") ~> (t_pc = "returned")

\* The server accepted the connection and never answers SELECT version():
\* no timeout is armed around that query.
C4_VersionQueryHangs ==
    /\ t_pc = "version"
    /\ t_wait = "never"
    /\ t_timer = None

Min(a, b) == IF a < b THEN a ELSE b

\* C5: after any sequence of test_profile_connection calls every profile's
\* history holds at most 100 entries, and they are the most recently recorded
\* entries of that profile in the order recorded.
C5_HistoryKeepsNewest ==
    \A p \in Profiles :
        LET held == get_health_history(health_history, p)
            all == h_recorded[p]
            n == Min(HealthCap, Len(all))
        IN  /\ Len(held) <= HealthCap
            /\ held = SubSeq(all, Len(all) - n + 1, Len(all))
            /\ IsSome(health_history[p]) <=> all # <<>>

\* More entries were recorded for "p1" than a history holds; the oldest are gone.
C5_Witness ==
    /\ Len(h_recorded["p1"]) > HealthCap
    /\ Len(get_health_history(health_history, "p1")) = HealthCap
    /\ get_health_history(health_history, "p1")[1] # h_recorded["p1"][1]
    /\ get_health_history(health_history, "p1")[HealthCap]
          = h_recorded["p1"][Len(h_recorded["p1"])]

C6_OneEntryAppended ==
    (h_calls' = h_calls + 1) =>
        LET p == h_last'.pid
            old == get_health_history(health_history, p)
            new == get_health_history(health_history', p)
            e == new[Len(new)]
        IN  /\ new # <<>>
            /\ e.status = IF h_last'.result.success THEN Healthy ELSE Error
            /\ e.timestamp = h_now'
            /\ new = IF Len(old) < HealthCap THEN Append(old, e)
                     ELSE Append(Tail(old), e)
            /\ \A q \in Profiles \ {p} : health_history'[q] = health_history[q]

C6_OnlyHealthyOrError ==
    \A p \in Profiles :
        \A i \in 1..Len(get_health_history(health_history, p)) :
            get_health_history(health_history, p)[i].status \in {Healthy, Error}

\* C6: each test_profile_connection call appends exactly one entry to the
\* history of profile.id and to no other; its status is Healthy if and only if
\* the returned result has success = true, and Error otherwise; Warning and
\* Unknown are never recorded.
C6_RecordsOneEntryPerCall == [][C6_OneEntryAppended]_vars /\ []C6_OnlyHealthyOrError

\* A test of "p2" that succeeded was followed by one that failed validation.
C6_Witness ==
    /\ h_last.op = "test_profile_connection"
    /\ h_last.pid = "p2"
    /\ h_last.result.error_code = Some("VALIDATION_ERROR")
    /\ Len(get_health_history(health_history, "p2")) = 2
    /\ get_health_history(health_history, "p2")[1].status = Healthy
    /\ get_health_history(health_history, "p2")[2].status = Error

RECURSIVE InClosedWindow(_, _, _)
InClosedWindow(v, from, to) ==
    IF v = <<>> THEN <<>>
    ELSE (IF from <= Head(v).timestamp /\ Head(v).timestamp <= to
          THEN <<Head(v)>> ELSE <<>>)
         \o InClosedWindow(Tail(v), from, to)

\* C7: calculate_uptime(p, h) returns 100 * healthy / total over the entries
\* of p whose timestamp lies in the closed window [now - h hours, now], and
\* 0.0 when that window holds no entry or p is unknown; the result lies
\* between 0 and 100.
C7_UptimeOverClosedWindow ==
    h_last.op = "calculate_uptime" =>
        LET window == InClosedWindow(get_health_history(health_history, h_last.pid),
                                     h_last.now - h_last.period_hours, h_last.now)
        IN  /\ ~h_last.out.panic
            /\ h_last.out.value >= 0
            /\ h_last.out.value <= 10000
            /\ h_last.out.value =
                  IF window = <<>> THEN 0
                  ELSE (count_if(window, Healthy) * 10000) \div Len(window)

\* calculate_uptime was called with the largest period_hours on a profile
\* that has a history, and panicked.
C7_UptimePanics ==
    /\ h_last.op = "calculate_uptime"
    /\ h_last.period_hours = U32Max
    /\ IsSome(health_history[h_last.pid])
    /\ h_last.out.panic

\* The rules of the validator that a config violates.
ViolatedRules(config) ==
    { rule \in [field : {"host", "port", "database", "username", "connection_timeout",
                         "query_timeout", "ssl_cert", "ssl_key", "ssl_ca"},
                kind : {"empty", "too long", "range", "missing"}] :
        \/ /\ rule.field \in {"host", "database", "username"}
           /\ rule.kind = "empty"
           /\ config[rule.field].blank
        \/ /\ rule.field \in {"host", "database", "username"}
           /\ rule.kind = "too long"
           /\ ~config[rule.field].blank
           /\ config[rule.field].bytes >
                 (IF rule.field = "host" THEN MaxHostLen ELSE MaxNameLen)
        \/ /\ rule.field = "port"
           /\ rule.kind = "range"
           /\ config.port \notin 1..U16Max
        \/ /\ rule.field = "connection_timeout"
           /\ rule.kind = "range"
           /\ as_secs(config.connection_timeout) \notin 1..MaxConnTimeout
        \/ /\ rule.field = "query_timeout"
           /\ rule.kind = "range"
           /\ as_secs(config.query_timeout) \notin 1..MaxQueryTimeout
        \/ /\ rule.field \in {"ssl_cert", "ssl_key", "ssl_ca"}
           /\ rule.kind = "missing"
           /\ config[rule.field] = "missing" }
    \cup
    { rule \in [field : config.custom_parameters, kind : {"empty name", "value too long"}] :
        \/ rule.kind = "empty name" /\ ParamTable[rule.field].key.blank
        \/ rule.kind = "value too long"
              /\ ParamTable[rule.field].value.bytes > MaxParamValueLen }

\* The error variant a violated rule is reported with.
VariantOf(rule) ==
    CASE rule.field = "host" -> "InvalidHost"
      [] rule.field = "port" -> "InvalidPort"
      [] rule.field = "database" -> "InvalidDatabase"
      [] rule.field = "username" -> "InvalidUsername"
      [] rule.field \in {"connection_timeout", "query_timeout"} -> "InvalidTimeout"
      [] rule.field \in {"ssl_cert", "ssl_key", "ssl_ca"} -> "InvalidSSLConfig"
      [] OTHER -> "InvalidCustomParameter"

\* The rule an error of the list reports.
RuleOf(error) ==
    CASE error.kind = "InvalidHost" -> [field |-> "host", kind |-> error.msg]
      [] error.kind = "InvalidPort" -> [field |-> "port", kind |-> error.msg]
      [] error.kind = "InvalidDatabase" -> [field |-> "database", kind |-> error.msg]
      [] error.kind = "InvalidUsername" -> [field |-> "username", kind |-> error.msg]
      [] error.kind = "InvalidTimeout" ->
            [field |-> IF error.msg = "connection" THEN "connection_timeout"
                       ELSE "query_timeout", kind |-> "range"]
      [] error.kind = "InvalidSSLConfig" ->
            [field |-> IF error.msg = "cert" THEN "ssl_cert"
                       ELSE IF error.msg = "key" THEN "ssl_key" ELSE "ssl_ca",
             kind |-> "missing"]
      [] error.kind = "InvalidCustomParameter" -> [field |-> error.key, kind |-> error.msg]

\* C8 (amended): validate_connection_config returns Ok exactly when no rule
\* is violated, and otherwise the full list: one error of the matching variant
\* for every violated rule and no other.  The rules: host, database and
\* username not blank after trim and at most 255, 63 and 63 bytes; port not 0;
\* connection timeout 1..300 and query timeout 1..3600 whole seconds; every
\* SSL path that is given and not blank exists; custom parameter keys not
\* blank after trim and values at most 1024 bytes.
C8_FullListOfViolatedRules ==
    IsSome(v_result) =>
        LET r == Unwrap(v_result)
            violated == ViolatedRules(v_config)
        IN  /\ r.ok <=> violated = {}
            /\ ~r.ok =>
                  /\ Len(r.err) = Cardinality(violated)
                  /\ { RuleOf(r.err[i]) : i \in 1..Len(r.err) } = violated
                  /\ \A i \in 1..Len(r.err) : r.err[i].kind = VariantOf(RuleOf(r.err[i]))
            /\ (v_config.host.bytes = MaxHostLen /\ ~v_config.host.blank) =>
                  \A i \in 1..(IF r.ok THEN 0 ELSE Len(r.err)) : r.err[i].kind # "InvalidHost"

\* host "", port 0 and database "" together yield three errors.
C8_Witness ==
    /\ IsSome(v_result)
    /\ v_config.host = Str(0, 0, TRUE)
    /\ v_config.port = 0
    /\ v_config.database = Str(0, 0, TRUE)
    /\ ~Unwrap(v_result).ok
    /\ Len(Unwrap(v_result).err) = 3
    /\ Unwrap(v_result).err[1].kind = "InvalidHost"
    /\ Unwrap(v_result).err[2].kind = "InvalidPort"
    /\ Unwrap(v_result).err[3].kind = "InvalidDatabase"

\* The rules as C8 states them: lengths in chars, emptiness as zero length,
\* timeouts as durations within 1..300 s and 1..3600 s, no rule on SSL paths.
StatedRulesHold(config) ==
    /\ config.host.chars > 0 /\ config.host.chars <= MaxHostLen
    /\ config.port \in 1..U16Max
    /\ config.database.chars > 0 /\ config.database.chars <= MaxNameLen
    /\ config.username.chars > 0 /\ config.username.chars <= MaxNameLen
    /\ config.connection_timeout >= 1000
    /\ config.connection_timeout <= MaxConnTimeout * 1000
    /\ config.query_timeout >= 1000
    /\ config.query_timeout <= MaxQueryTimeout * 1000
    /\ \A name \in config.custom_parameters :
          /\ ParamTable[name].key.chars > 0
          /\ ParamTable[name].value.chars <= MaxParamValueLen

\* C8 as stated: validate_connection_config returns Ok exactly when the
\* stated rules hold.
C8_OkExactlyWhenStatedRulesHold ==
    IsSome(v_result) => (Unwrap(v_result).ok <=> StatedRulesHold(v_config))

\* C9: for a profile id with no keystore entry (never stored, or deleted
\* since its last store), on an initialized vault retrieve fails with
\* ProfileNotFound carrying that id, has_credentials returns false and delete
\* fails with ProfileNotFound; after a successful store has_credentials
\* returns true until the next successful delete.
C9_AbsentProfile ==
    /\ \A p \in Profiles :
          /\ ~stored[p] =>
                /\ IsSome(master_key) =>
                      retrieve_credentials(master_key, keystore, p) = Err(ProfileNotFound(p))
                /\ ~has_credentials(keystore, p)
                /\ delete_credentials(keystore, p).res = Err(ProfileNotFound(p))
          /\ stored[p] => has_credentials(keystore, p)
    /\ (vault_last.op = "retrieve" /\ vault_last.init /\ ~stored[vault_last.pid]) =>
          vault_last.res = Err(ProfileNotFound(vault_last.pid))
    /\ (vault_last.op = "has_credentials") =>
          vault_last.res = Ok(stored[vault_last.pid])
    /\ (vault_last.op = "delete" /\ ~vault_last.had) =>
          vault_last.res = Err(ProfileNotFound(vault_last.pid))

\* On an initialized vault holding an entry for "p2", a retrieve of "p1",
\* which has none, failed with ProfileNotFound("p1").
C9_Witness ==
    /\ vault_last.op = "retrieve"
    /\ vault_last.pid = "p1"
    /\ vault_last.init
    /\ ~stored["p1"]
    /\ stored["p2"]
    /\ vault_last.res = Err(ProfileNotFound("p1"))

\* C10 (amended): on an initialized vault, update(p, c) on a profile id with
\* no stored entry fails with ProfileNotFound and creates no keystore entry:
\* has_credentials(p) is still false afterwards and a later retrieve(p) still
\* fails with ProfileNotFound.
C10_UpdateAbsentOnInitializedVault ==
    /\ \A p \in Profiles, c \in CredentialsSet, n \in Nonces :
          (IsSome(master_key) /\ ~has_credentials(keystore, p)) =>
              /\ update_credentials(master_key, keystore, p, c, n).res
                    = Err(ProfileNotFound(p))
              /\ update_credentials(master_key, keystore, p, c, n).ks = keystore
    /\ (vault_last.op = "update" /\ vault_last.init /\ ~vault_last.had) =>
          /\ vault_last.res = Err(ProfileNotFound(vault_last.pid))
          /\ ~has_credentials(keystore, vault_last.pid)
          /\ retrieve_credentials(master_key, keystore, vault_last.pid)
                = Err(ProfileNotFound(vault_last.pid))

\* An update of "p1", which has no entry, failed on an initialized vault.
C10_Witness ==
    /\ vault_last.op = "update"
    /\ vault_last.pid = "p1"
    /\ vault_last.init
    /\ ~vault_last.had
    /\ vault_last.res = Err(ProfileNotFound("p1"))
    /\ ~has_credentials(keystore, "p1")

\* C10 as stated: update(p, c) on a profile id with no stored entry fails
\* with ProfileNotFound, on any vault.
C10_UpdateAbsentFailsWithProfileNotFound ==
    (vault_last.op = "update" /\ ~vault_last.had) =>
        /\ vault_last.res = Err(ProfileNotFound(vault_last.pid))
        /\ ~has_credentials(keystore, vault_last.pid)

\* C11 (amended): store, retrieve and update called on a vault that holds no
\* master key (neither initialize nor rotate_master_key was called on this
\* instance) fail with MasterKeyError, whether or not an entry exists for the
\* profile id, and leave every keystore entry unchanged.
C11_KeylessVaultFailsWithMasterKeyError ==
    /\ master_key = None =>
          \A p \in Profiles :
              /\ retrieve_credentials(master_key, keystore, p) = Err(MasterKeyError)
              /\ \A c \in CredentialsSet, n \in Nonces :
                    /\ store_credentials(master_key, keystore, p, c, n)
                          = [res |-> Err(MasterKeyError), ks |-> keystore]
                    /\ update_credentials(master_key, keystore, p, c, n)
                          = [res |-> Err(MasterKeyError), ks |-> keystore]
    /\ (vault_last.op \in {"store", "retrieve", "update"} /\ ~vault_last.init) =>
          /\ vault_last.res = Err(MasterKeyError)
          /\ has_credentials(keystore, vault_last.pid) = vault_last.had

\* A store for "p1", which has an entry written by an earlier instance, failed
\* with MasterKeyError on a vault that holds no key; the entry is still there.
C11_Witness ==
    /\ vault_last.op = "store"
    /\ vault_last.pid = "p1"
    /\ ~vault_last.init
    /\ ~vault_last.init_called
    /\ vault_last.had
    /\ vault_last.res = Err(MasterKeyError)
    /\ has_credentials(keystore, "p1")

\* C11 as stated: store, retrieve and update on a vault on which initialize
\* was never called fail with MasterKeyError.
C11_NeverInitializedFails ==
    (vault_last.op \in {"store", "retrieve", "update"} /\ ~vault_last.init_called) =>
        vault_last.res = Err(MasterKeyError)

C13_InitializeOverRecord ==
    (vault_last'.op = "initialize" /\ key_ctr' # key_ctr /\ IsSome(master_rec)) =>
        /\ master_rec' = master_rec
        /\ IsSome(master_key')
        /\ Unwrap(master_key') \notin 1..key_ctr
        /\ \A p \in Profiles :
              has_credentials(keystore, p) =>
                  /\ has_credentials(keystore', p)
                  /\ retrieve_credentials(master_key', keystore', p) = Err(DecryptionError)

C14_RotateStep ==
    (vault_last'.op = "rotate_master_key" /\ key_ctr' # key_ctr) =>
        /\ IsSome(master_key')
        /\ Unwrap(master_key') \notin 1..key_ctr
        /\ master_rec' = Some([key_hash |-> key_hash(Unwrap(master_key'))])
        /\ keystore' = keystore
        /\ \A p \in Profiles :
              has_credentials(keystore, p) =>
                  retrieve_credentials(master_key', keystore', p) = Err(DecryptionError)

C14_StoreStep ==
    (vault_last'.op = "store" /\ vault_last'.res.ok) =>
        LET r == retrieve_credentials(master_key', keystore', vault_last'.pid)
        IN  /\ r.ok
            /\ SameLogin(r.val, Unwrap(last_cred'[vault_last'.pid]))

C14_StaleUntilStored ==
    \A p \in Profiles :
        (IsSome(master_key) /\ has_credentials(keystore, p) /\ ~IsSome(last_cred[p])) =>
            retrieve_credentials(master_key, keystore, p) = Err(DecryptionError)

C12_CorruptedRecordGivesDecryptionError ==
    (vault_last.op = "retrieve" /\ vault_last.init /\ vault_last.tampered # "no") =>
        vault_last.res = Err(DecryptionError)

\* A retrieve of a record whose nonce decodes to 8 bytes did not return:
\* Nonce::from_slice panicked.
C12_RetrievePanics ==
    /\ vault_last.op = "retrieve"
    /\ vault_last.init
    /\ vault_last.tampered = "nonce_wrong_length"
    /\ vault_last.res = Err([kind |-> "panic"])

\* C15: every result returned by test_connection is well-formed: with
\* success = false it carries an error message, an error code and at least one
\* troubleshooting hint; with success = true it carries no error message, no
\* error code and an empty hint list.
C15_ResultWellFormed ==
    IsSome(t_result) =>
        LET r == Unwrap(t_result)
        IN  IF r.success
            THEN /\ r.error_message = None
                 /\ r.error_code = None
                 /\ r.troubleshooting_hints = <<>>
            ELSE /\ IsSome(r.error_message)
                 /\ IsSome(r.error_code)
                 /\ Len(r.troubleshooting_hints) >= 1

\* A configuration that breaks three rules was rejected: the result has a
\* message, the code VALIDATION_ERROR and three hints.
C15_Witness ==
    /\ t_pc = "returned"
    /\ IsSome(t_result)
    /\ ~Unwrap(t_result).success
    /\ IsSome(Unwrap(t_result).error_message)
    /\ Unwrap(t_result).error_code = Some("VALIDATION_ERROR")
    /\ Len(Unwrap(t_result).troubleshooting_hints) = 3

\* The text holds the word, in lower case or capitalised.
Mentions(text, needle) == needle \in text \/ Capitalised[needle] \in text

\* The rules of the classifier, in their order.
RuleCodes ==
    <<"CONNECTION_REFUSED", "CONNECTION_TIMEOUT", "AUTHENTICATION_FAILED",
      "DATABASE_NOT_FOUND", "SSL_ERROR", "HOST_RESOLUTION_ERROR">>

RuleMatches(text) ==
    << Mentions(text, "connection refused"),
       Mentions(text, "timeout") \/ Mentions(text, "timed out"),
       Mentions(text, "authentication failed") \/ Mentions(text, "password"),
       Mentions(text, "database") /\ Mentions(text, "does not exist"),
       Mentions(text, "ssl"),
       Mentions(text, "host") \/ Mentions(text, "resolve") >>

FirstMatchingCode(text) ==
    IF \E i \in 1..6 : RuleMatches(text)[i]
    THEN RuleCodes[CHOOSE i \in 1..6 :
                      /\ RuleMatches(text)[i]
                      /\ \A j \in 1..(i - 1) : ~RuleMatches(text)[j]]
    ELSE "UNKNOWN_ERROR"

\* C16: analyze_connection_error gives the code of the first rule the
\* lower-cased text matches, in the order refused, timeout, authentication,
\* database, ssl, host, and UNKNOWN_ERROR when none matches; matching ignores
\* letter case; every code comes with exactly 3 hints.
C16_FirstMatchingRule ==
    /\ IsSome(cl_out) =>
          /\ Unwrap(cl_out)[1] = FirstMatchingCode(cl_text)
          /\ Len(Unwrap(cl_out)[2]) = 3
    /\ analyze_connection_error({"Connection refused"})
          = <<"CONNECTION_REFUSED",
              <<"Check if PostgreSQL server is running",
                "Verify the host and port are correct",
                "Check firewall settings">> >>
    /\ analyze_connection_error({"password", "authentication failed"})[1]
          = "AUTHENTICATION_FAILED"

\* A text that says "Timed out", "Connection refused" and "SSL" was
\* classified as CONNECTION_REFUSED, the earliest of the three rules.
C16_Witness ==
    /\ cl_text = {"Timed out", "Connection refused", "SSL"}
    /\ IsSome(cl_out)
    /\ Unwrap(cl_out)[1] = "CONNECTION_REFUSED"
    /\ Len(Unwrap(cl_out)[2]) = 3

\* The history after the first k appends of `all`: the newest 100 of them.
AfterAppends(all, k) ==
    LET n == Min(HealthCap, k)
    IN  [p \in Profiles |->
            IF p = SharedProfile /\ k > 0 THEN Some(SubSeq(all, k - n + 1, k)) ELSE None]

C17_HistoryOfReturnedCalls ==
    LET all == h_recorded[SharedProfile]
        held == get_health_history(health_history, SharedProfile)
    IN  /\ Cardinality({ all[i].timestamp : i \in 1..Len(all) }) = Len(all)
        /\ Len(all) = calls_returned
                        + Cardinality({c \in Callers : call_pc[c] = "pushed"})
        /\ history_lock = 0 =>
              /\ Len(held) = Min(calls_returned, HealthCap)
              /\ health_history = AfterAppends(all, calls_returned)

C17_ReadersSeeWholeAppends ==
    h_last.op \in ReadOps =>
        LET seen == AfterAppends(h_recorded[SharedProfile], h_last.completed)
        IN  h_last.out =
              CASE h_last.op = "get_health_history" ->
                     get_health_history(seen, SharedProfile)
                [] h_last.op = "get_current_health" ->
                     get_current_health(seen, SharedProfile)
                [] h_last.op = "calculate_uptime" ->
                     calculate_uptime(seen, SharedProfile, 1, h_last.now)

\* C17: when several test_profile_connection calls for the same profile id
\* run concurrently on one service, no recorded entry is lost, duplicated or
\* torn: once k calls have returned the history holds min(k, 100) entries, the
\* newest of those recorded, and every get_health_history, get_current_health
\* or calculate_uptime running concurrently observes the history as it is
\* after a whole number of completed appends.
C17_ConcurrentAppendsAreWhole ==
    C17_HistoryOfReturnedCalls /\ C17_ReadersSeeWholeAppends

\* get_health_history ran after 101 calls had returned and while another call
\* was waiting for the Mutex; it saw 100 entries, and the entries were not
\* pushed in the order of their timestamps.
C17_Witness ==
    /\ h_last.op = "get_health_history"
    /\ h_last.completed = HealthCap + 1
    /\ Len(h_last.out) = HealthCap
    /\ \E c \in Callers : call_pc[c] = "waiting"
    /\ \E i \in 1..(Len(h_recorded[SharedProfile]) - 1) :
          h_recorded[SharedProfile][i].timestamp
              > h_recorded[SharedProfile][i + 1].timestamp

CreatesReturned == \A c \in Creators : create_pc[c] = "returned"

\* The elements of a Vec, as a set.
Elements(v) == { v[i] : i \in 1..Len(v) }

PairwiseDistinct ==
    \A c, d \in Creators :
        (c # d /\ IsSome(create_arg[c]) /\ IsSome(create_arg[d])) =>
            /\ Unwrap(create_arg[c]).id # Unwrap(create_arg[d]).id
            /\ Unwrap(create_arg[c]).name # Unwrap(create_arg[d]).name

\* C18: when several create_profile calls with pairwise distinct ids and
\* names run concurrently on one store, every call succeeds and no profile is
\* lost: get_all_profiles afterwards returns all of them, and once all calls
\* have returned the profiles file holds the same set of profiles as memory.
C18_ConcurrentCreatesAllStored ==
    /\ (CreatesReturned /\ PairwiseDistinct) =>
          /\ \A c \in Creators : create_res[c] = Some(Ok(Unwrap(create_arg[c])))
          /\ values(store_profiles) = { Unwrap(create_arg[c]) : c \in Creators }
          /\ Cardinality(DOMAIN store_profiles) = MaxCreators
          /\ IsSome(store_file)
          /\ Unwrap(store_file).profile_count = MaxCreators
          /\ Len(Unwrap(store_file).profiles) = MaxCreators
          /\ Elements(Unwrap(store_file).profiles) = values(store_profiles)
    /\ (IsSome(store_last) /\ CreatesReturned /\ PairwiseDistinct
            /\ Unwrap(store_last).returned = MaxCreators) =>
          /\ Len(Unwrap(store_last).out) = MaxCreators
          /\ Elements(Unwrap(store_last).out) = { Unwrap(create_arg[c]) : c \in Creators }
    /\ PairwiseDistinct =>
          \A c \in Creators :
              (create_pc[c] # "idle") =>
                  /\ contains_key(store_profiles, Unwrap(create_arg[c]).id)
                  /\ store_profiles[Unwrap(create_arg[c]).id] = Unwrap(create_arg[c])

\* All creators have returned from calls with distinct ids and names, the
\* last of them inserted while an earlier one had not yet written the file;
\* get_all_profiles returns all the profiles and the file holds them.
C18_Witness ==
    /\ CreatesReturned
    /\ PairwiseDistinct
    /\ IsSome(store_last)
    /\ Unwrap(store_last).returned = MaxCreators
    /\ Cardinality(Elements(Unwrap(store_last).out)) = MaxCreators
    /\ IsSome(store_file)
    /\ Unwrap(store_file).profile_count = MaxCreators
    /\ Elements(Unwrap(store_file).profiles) = values(store_profiles)

\* options.retry_delay_ms.unwrap_or(1000)
FixedDelay == IF IsSome(t_options.retry_delay_ms)
              THEN Unwrap(t_options.retry_delay_ms) ELSE 1000

\* C19: within one test_connection invocation attempts never overlap: while
\* attempt i+1 runs, attempts 1..i have all ended in failure and exactly i
\* delays have been slept, each of the fixed length retry_delay_ms; a delay is
\* slept only between two attempts, none after the last attempt or after a
\* successful one.
C19_OneFixedDelayBetweenAttempts ==
    /\ \A i \in 1..Len(t_slept) : t_slept[i] = FixedDelay
    /\ t_pc \in {"connect", "probe", "version"} =>
          /\ t_attempt >= 1
          /\ Len(t_outcomes) = t_attempt - 1
          /\ \A i \in 1..Len(t_outcomes) : t_outcomes[i] # "ok"
          /\ Len(t_slept) = t_attempt - 1
    /\ t_pc = "sleep" =>
          /\ t_attempt < retry_attempts_of(t_options)
          /\ Len(t_outcomes) = t_attempt
          /\ \A i \in 1..Len(t_outcomes) : t_outcomes[i] # "ok"
          /\ Len(t_slept) = t_attempt - 1
    /\ t_pc = "returned" =>
          /\ Len(t_outcomes) = t_attempt
          /\ Len(t_slept) = IF t_attempt = 0 THEN 0 ELSE t_attempt - 1
    /\ t_pc = "idle" => t_slept = <<>>

\* Three attempts failed with the default options: two delays of 1000 ms
\* were slept, none after the third attempt.
C19_Witness ==
    /\ t_pc = "returned"
    /\ t_attempt = 3
    /\ Len(t_outcomes) = 3
    /\ t_outcomes[3] # "ok"
    /\ t_slept = <<1000, 1000>>

\* C20: when all N >= 1 attempts of a test_connection invocation fail, the
\* returned error_message, error_code and hints are those of the error of the
\* N-th attempt, also when the attempts failed for different reasons.
C20_LastErrorReported ==
    (t_pc = "returned" /\ t_attempt >= 1 /\ ~Unwrap(t_result).success) =>
        LET r == Unwrap(t_result)
            N == Len(t_outcomes)
            last == t_outcomes[N]
        IN  /\ N = t_attempt
            /\ N = retry_attempts_of(t_options)
            /\ r.error_message = Some(<<last, <<>> >>)
            /\ r.error_code = Some(analyze_connection_error(to_string(last))[1])
            /\ r.troubleshooting_hints = analyze_connection_error(to_string(last))[2]

\* The first attempt was refused and the second, the last, failed
\* authentication: the result says AUTHENTICATION_FAILED.
C20_Witness ==
    /\ t_pc = "returned"
    /\ t_outcomes = <<"refused", "auth">>
    /\ ~Unwrap(t_result).success
    /\ Unwrap(t_result).error_code = Some("AUTHENTICATION_FAILED")
    /\ Unwrap(t_result).error_message = Some(<<"auth", <<>> >>)

\* C21: the connect step of every attempt is bounded by the smaller of
\* options.timeout_seconds and the config's connection_timeout, in seconds:
\* the timer armed around tokio_postgres::connect is min(option, config).
C21_ConnectBoundedBySmaller ==
    t_pc = "connect" =>
        t_timer = Some(IF IsSome(t_options.timeout_seconds)
                       THEN Min(Unwrap(t_options.timeout_seconds),
                                as_secs(t_config.connection_timeout))
                       ELSE as_secs(t_config.connection_timeout))

\* A connect that never completes is running under a timer of 60 s, the
\* option, although the config's connection_timeout is 30 s.
C21_OptionOutlastsConfig ==
    /\ t_pc = "connect"
    /\ t_wait = "never"
    /\ t_options.timeout_seconds = Some(60)
    /\ as_secs(t_config.connection_timeout) = 30
    /\ t_timer = Some(60)

\* C22: when the last attempt of a test fails because the probe query
\* exceeded its 10-second sub-timeout, the reported error_code differs from
\* the code reported when the connect step times out or fails.
C22_ProbeTimeoutHasOwnCode ==
    (/\ t_pc = "returned"
     /\ t_outcomes # <<>>
     /\ t_outcomes[Len(t_outcomes)] = "query_timed_out") =>
        \A e \in ConnectErrors \cup {"connect_timed_out"} :
            Unwrap(t_result).error_code #
                Some(analyze_connection_error(to_string(e))[1])

\* The last attempt connected and its probe query timed out: the result
\* carries CONNECTION_TIMEOUT and the hints of a connect timeout.
C22_ProbeTimeoutReportedAsConnectTimeout ==
    /\ t_pc = "returned"
    /\ t_outcomes # <<>>
    /\ t_outcomes[Len(t_outcomes)] = "query_timed_out"
    /\ Unwrap(t_result).error_code = Some("CONNECTION_TIMEOUT")
    /\ Unwrap(t_result).error_code =
          Some(analyze_connection_error(to_string("connect_timed_out"))[1])
    /\ Unwrap(t_result).troubleshooting_hints[1] = "Increase connection timeout value"

\* C23: a successful store(p, .) or delete(p) changes exactly one keystore
\* entry, the entry of p: the entries of all other profile ids and the
\* master-key record are unchanged.  has_credentials, retrieve and every
\* store, update or delete that returns an error change no keystore entry.
C23_Step ==
    LET call == vault_last' IN
    /\ (call.op \in {"store", "delete"} /\ call.res.ok) =>
          /\ \A q \in Profiles \ {call.pid} : keystore'[q] = keystore[q]
          /\ master_rec' = master_rec
          /\ call.op = "store" => IsSome(keystore'[call.pid])
          /\ call.op = "delete" => IsSome(keystore[call.pid]) /\ keystore'[call.pid] = None
    /\ (\/ call.op \in {"has_credentials", "retrieve"}
        \/ call.op \in {"store", "update", "delete"} /\ ~call.res.ok) =>
          /\ keystore' = keystore
          /\ master_rec' = master_rec

C23_StoreAndDeleteChangeOneEntry == [][C23_Step]_vars

\* delete(p1) has just succeeded on a keystore that also holds the entry of
\* p2 and the master-key record.
C23_Witness ==
    /\ vault_last.op = "delete"
    /\ vault_last.pid = "p1"
    /\ vault_last.res.ok
    /\ keystore["p1"] = None
    /\ IsSome(keystore["p2"])
    /\ IsSome(master_rec)

\* C24: a profile's health history changes only by test_profile_connection
\* appending an entry for that same profile id; validate_connection_config,
\* test_connection, get_health_history, get_current_health, calculate_uptime
\* and test_profile_connection on other profile ids leave it unchanged, and
\* no entry is removed or rewritten except by the drop-oldest trim.
C24_Step ==
    \A p \in Profiles :
        health_history'[p] # health_history[p] =>
            LET old == IF IsSome(health_history[p])
                       THEN Unwrap(health_history[p]) ELSE <<>>
                new == Unwrap(health_history'[p])
            IN  /\ h_last'.op = "test_profile_connection"
                /\ h_last'.pid = p
                /\ IsSome(health_history'[p])
                /\ new # <<>>
                /\ SubSeq(new, 1, Len(new) - 1) =
                      IF Len(old) < HealthCap THEN old
                      ELSE SubSeq(old, Len(old) - HealthCap + 2, Len(old))

C24_HistoryOnlyAppendedTo == [][C24_Step]_vars

\* get_current_health(p1) has just been called on a service that holds a
\* full history of p1 and a history of p2: both are as they were recorded.
C24_Witness ==
    /\ h_last.op = "get_current_health"
    /\ h_last.pid = "p1"
    /\ IsSome(health_history["p1"])
    /\ Len(Unwrap(health_history["p1"])) = HealthCap
    /\ Len(h_recorded["p1"]) > HealthCap
    /\ IsSome(health_history["p2"])
    /\ Unwrap(health_history["p2"]) = h_recorded["p2"]

\* The kinds of violation among validation errors.
ViolationKinds(errors) == { errors[i].kind : i \in 1..Len(errors) }

\* C25: for a config that fails validation the troubleshooting hints of the
\* test result hold one hint per distinct kind of violation: the number of
\* hints equals the number of distinct violated kinds, so two violations of
\* the same kind produce one hint.
C25_OneHintPerViolationKind ==
    (/\ t_pc = "returned"
     /\ Unwrap(t_result).error_code = Some("VALIDATION_ERROR")) =>
        LET r == Unwrap(t_result)
            errors == Unwrap(r.error_message)[2]
        IN  /\ Len(r.troubleshooting_hints) = Cardinality(ViolationKinds(errors))
            /\ \A i, j \in 1..Len(r.troubleshooting_hints) :
                  i # j => r.troubleshooting_hints[i] # r.troubleshooting_hints[j]

\* Both timeouts of the config are out of range: the result holds the
\* timeout hint twice.
C25_SameHintTwice ==
    /\ t_pc = "returned"
    /\ Unwrap(t_result).error_code = Some("VALIDATION_ERROR")
    /\ ViolationKinds(Unwrap(Unwrap(t_result).error_message)[2]) = {"InvalidTimeout"}
    /\ Unwrap(t_result).troubleshooting_hints =
          << "Use reasonable timeout values (30 seconds for connection, 5 minutes for queries)",
             "Use reasonable timeout values (30 seconds for connection, 5 minutes for queries)" >>

\* C26: the fall-through result placed after the retry loop of
\* test_connection (UNKNOWN_ERROR, 'Unknown error occurred', one generic
\* hint, no database name) is never returned, for every config and every
\* option value, including every value of retry_attempts.
C26_FallThroughNeverReturned ==
    t_pc = "returned" =>
        /\ Unwrap(t_result) # fall_through_result
        /\ Unwrap(t_result).error_message # Some(<<"Unknown error occurred", <<>> >>)

\* A valid config tested with retry_attempts = Some(0): no attempt was made
\* and the fall-through result came back.
C26_ZeroAttemptsFallThrough ==
    /\ t_pc = "returned"
    /\ t_options.retry_attempts = Some(0)
    /\ validate_connection_config(t_config, <<>>).ok
    /\ t_attempt = 0
    /\ t_outcomes = <<>>
    /\ t_result = Some(fall_through_result)

\* C27: within an attempt whose connect step succeeded, a probe query that
\* returns an error before its 10-second sub-timeout does not fail the
\* attempt: the attempt goes on to the version query and the test is
\* reported as success=true with an empty hint list; only a probe-query
\* timeout turns a connected attempt into a failed one.
C27_ProbeStep ==
    /\ (t_pc = "probe" /\ t_probe' = "error") =>
          /\ t_pc' = "version"
          /\ t_outcomes' = t_outcomes
    /\ (t_pc \in {"probe", "version"} /\ Len(t_outcomes') > Len(t_outcomes)
                                      /\ t_outcomes'[Len(t_outcomes')] # "ok") =>
          /\ t_pc = "probe"
          /\ t_wait = "never"
          /\ t_probe' = "elapsed"
          /\ t_outcomes'[Len(t_outcomes')] = "query_timed_out"

C27_ProbeErrorKeptApart ==
    (t_probe = "error" /\ t_pc = "returned") =>
        /\ Unwrap(t_result).success
        /\ Unwrap(t_result).troubleshooting_hints = <<>>
        /\ Unwrap(t_result).error_code = None
        /\ t_outcomes[Len(t_outcomes)] = "ok"

C27_ProbeErrorDoesNotFailAttempt ==
    [][C27_ProbeStep]_vars /\ []C27_ProbeErrorKeptApart

\* The probe query of the only attempt returned an error in time and the
\* test came back as a success without hints.
C27_Witness ==
    /\ t_pc = "returned"
    /\ t_probe = "error"
    /\ t_attempt = 1
    /\ IsSome(t_options.test_query)
    /\ Unwrap(t_result).success
    /\ Unwrap(t_result).troubleshooting_hints = <<>>

\* The key the entry `record` was sealed under.
SealedUnder(record) ==
    b64_decode(encrypted_from_json(record).val.encrypted_data).val.k

\* The vault holds a key and the entry of p was sealed under an earlier one.
StaleEntry(p) ==
    /\ IsSome(master_key)
    /\ IsSome(keystore[p])
    /\ SealedUnder(Unwrap(keystore[p])) # Unwrap(master_key)

\* C28: after the in-memory key has changed (rotate_master_key, or a repeated
\* initialize), update(p, c) for a profile stored under the earlier key fails
\* with DecryptionError and leaves p's stored entry unchanged; only
\* store(p, c) makes p retrievable again.
C28_Step ==
    \A p \in Profiles :
        StaleEntry(p) =>
            /\ (vault_last'.op = "update" /\ vault_last'.pid = p) =>
                  /\ vault_last'.res = Err(DecryptionError)
                  /\ keystore' = keystore
            /\ retrieve_credentials(master_key', keystore', p).ok =>
                  /\ vault_last'.op = "store"
                  /\ vault_last'.pid = p
                  /\ vault_last'.res.ok

C28_StaleEntry ==
    \A p \in Profiles :
        StaleEntry(p) => retrieve_credentials(master_key, keystore, p) = Err(DecryptionError)

C29_ProfilesKeptUnderOwnId ==
    /\ \A id \in StoreIds :
          get_profile(store_profiles, id).ok => get_profile(store_profiles, id).val.id = id
    /\ \A order \in IterationOrders(DOMAIN store_profiles) :
          LET loaded == load_profiles(EmptyMap,
                                      Some(stored_data(store_profiles, order))).profiles
          IN  /\ loaded = store_profiles
              /\ Cardinality(DOMAIN loaded) = Cardinality(DOMAIN store_profiles)

\* update_profile(1, profile) has just succeeded with a profile whose id
\* field is 2 while key 2 holds a profile too: get_profile(1) returns a
\* profile with id 2, the file holds two profiles with id 2, and loading it
\* gives a store of one profile.
C29_UpdateStoresForeignId ==
    /\ IsSome(store_last)
    /\ Unwrap(store_last).op = "update_profile"
    /\ Unwrap(store_last).id = 1
    /\ Unwrap(store_last).res.ok
    /\ DOMAIN store_profiles = {1, 2}
    /\ get_profile(store_profiles, 1).val.id = 2
    /\ get_profile(store_profiles, 2).val.id = 2
    /\ IsSome(store_file)
    /\ Unwrap(store_file).profile_count = 2
    /\ Cardinality(DOMAIN load_profiles(EmptyMap, store_file).profiles) = 1

\* C30: through the command layer the health service is used under one
\* service-wide lock that a command holds until it returns: at most one
\* connection test, with all its attempts and retry delays, is in progress at
\* any time, a command past its lock() holds the lock, and a history,
\* current-health, uptime or validation command invoked while a test was in
\* progress returns only after that test has returned, with no test in
\* progress at its return.
C30_OneTestAtATimeUnderServiceLock ==
    /\ Cardinality({ k \in Tasks : cmd_pc[k] \in InTest }) <= 1
    /\ \A k \in Tasks : cmd_pc[k] \in InTest \cup {"body"} => service_lock = k
    /\ \A k \in Tasks :
          cmd_pc[k] = "returned" =>
              /\ cmd_seen[k] = {}
              /\ \A j \in cmd_met[k] : cmd_pc[j] = "returned"

\* A history command was invoked during a test of a profile and has returned
\* after the test went through all its attempts and retry delays.
C30_Witness ==
    \E k \in Tasks, j \in Tasks :
        /\ cmd_kind[k] = "get_profile_health_history"
        /\ cmd_pc[k] = "returned"
        /\ j \in cmd_met[k]
        /\ cmd_kind[j] = "test_connection_profile"
        /\ cmd_attempt[j] = DefaultRetryAttempts
        /\ cmd_pc[j] = "returned"

====
